---- MODULE Spec2Model ----
(***************************************************************************)
(* WealthTrackr: accounts, transactions and balance reconciliation of the  *)
(* database-backed repositories, the transaction queries (filter, search)  *)
(* of the database-backed and of the in-memory variant, and the account    *)
(* aggregates (total balance, net worth).                                  *)
(*                                                                         *)
(* A table is a sequence of rows in insertion (rowid) order.  A Python     *)
(* dict is a record whose DOMAIN is the set of keys present.  A nullable   *)
(* column holds NULL (the empty tuple) or Some(v) (the one-element tuple). *)
(* A string is a sequence of one-character strings.  A datetime is an      *)
(* integer number of hours; an ISO string is a record [d] or [d, h].       *)
(* A float is an integer kept to FloatPrecision significant bits.          *)
(***************************************************************************)
EXTENDS Integers, Sequences, FiniteSets, TLC

VARIABLES
    accounts,         \* table accounts: rows [id, name, balance, is_active]
    transactions,     \* table transactions
    nextTid,          \* number of uuid4() identifiers handed out so far
    last,             \* the last call: its name, arguments, outcome
    memTransactions,  \* TransactionService.transactions (in-memory variant)
    memNextTid,       \* uuid4() identifiers handed out by the in-memory variant
    bank,             \* tables bank_connections and bank_connection_accounts
    sessions,         \* the requests in flight, each with its position
    memAccounts,      \* AccountService.accounts (in-memory variant)
    migrations        \* the migration scripts and the migrations table

vars ==
    <<accounts, transactions, nextTid, last, memTransactions, memNextTid,
      bank, sessions, memAccounts, migrations>>

----------------------------------------------------------------------------
(* Bounds *)

MaxTxns == 2         \* transactions created in one behaviour
MaxBatch == 2        \* items in one import batch
MaxFloatAccId == 3   \* account ids of the aggregate specification
MaxRows == 2         \* rows of the store the query specification draws
MaxMemAdds == 2      \* add_transaction calls of the in-memory variant
MaxClock == 3        \* readings of datetime.now() in the account specification
MaxBankIds == 2      \* bank connections and links created in one behaviour
MaxHttpTxns == 1     \* transactions created in the HTTP specification
MaxAddedAccounts == 2    \* added accounts held by the in-memory account service
MaxExportRows == 2       \* transactions in the store the export reads
MaxRuns == 2             \* runs of apply_migrations in one behaviour
MaxLinkIds == 4          \* ids handed out in the link specification
MaxSessions == 2         \* requests in flight in the step specification
MaxReportRows == 6       \* rows of the store in the report specification
MaxStoredAccounts == 3   \* accounts stored at a time in the id specification
MaxAccountNumber == 1001 \* numeric part of the ids of the id specification
FloatPrecision == 4  \* significant bits of a float (binary64 has 53)

AccIds == {1, 2}     \* account ids acc-001, acc-002
Amounts == {-2, 3}
Balances == {0, 5}
Names == {"Checking"}

----------------------------------------------------------------------------
(* Generic helpers *)

NULL == <<>>
Some(v) == <<v>>

Has(d, k) == k \in DOMAIN d
Get(d, k, default) == IF k \in DOMAIN d THEN d[k] ELSE default

Abs(x) == IF x < 0 THEN -x ELSE x

RECURSIVE Pow2(_)
Pow2(n) == IF n = 0 THEN 1 ELSE 2 * Pow2(n - 1)

\* dict with key k set to v
SetKey(d, k, v) ==
    [x \in (DOMAIN d) \cup {k} |-> IF x = k THEN v ELSE d[x]]

RECURSIVE Decimal(_)
\* the decimal digits of n, most significant first
Decimal(n) ==
    IF n < 10 THEN <<n>> ELSE Append(Decimal(n \div 10), n % 10)

RECURSIVE PadZeros(_, _)
\* format spec 0<width>d: zeros on the left up to width, never truncated
PadZeros(digits, width) ==
    IF Len(digits) >= width THEN digits
    ELSE PadZeros(<<0>> \o digits, width)

\* datetime(2025, 4, d, h) counted in hours
datetime(d, h) == d * 24 + h

----------------------------------------------------------------------------
(* Float arithmetic: round to nearest, ties to even, FloatPrecision bits *)

RECURSIVE Ulp(_)
Ulp(m) == IF m < Pow2(FloatPrecision) THEN 1 ELSE 2 * Ulp(m \div 2)

\* m = q * u + r rounded to a multiple of u, ties to the even quotient
RoundQuotient(q, r, u) ==
    IF 2 * r > u \/ (2 * r = u /\ q % 2 = 1) THEN (q + 1) * u ELSE q * u

RoundMagnitude(m, u) == RoundQuotient(m \div u, m % u, u)

FRound(x) ==
    IF x < 0 THEN -RoundMagnitude(-x, Ulp(-x)) ELSE RoundMagnitude(x, Ulp(x))

FAdd(x, y) == FRound(x + y)

RECURSIVE PySumFrom(_, _)
PySumFrom(acc, xs) ==
    IF xs = <<>> THEN acc ELSE PySumFrom(FAdd(acc, Head(xs)), Tail(xs))

\* Python sum(): left to right from 0
PySum(xs) == PySumFrom(0, xs)

----------------------------------------------------------------------------
(* Strings, ISO dates and row ordering *)

\* str.lower() on the letters the model uses
ToLower ==
    [A |-> "a", B |-> "b", C |-> "c", D |-> "d", E |-> "e", F |-> "f",
     G |-> "g", H |-> "h", I |-> "i", J |-> "j", K |-> "k", L |-> "l",
     M |-> "m", N |-> "n", O |-> "o", P |-> "p", Q |-> "q", R |-> "r",
     S |-> "s", T |-> "t", U |-> "u", V |-> "v", W |-> "w", X |-> "x",
     Y |-> "y", Z |-> "z"]

LowerChar(c) == IF c \in DOMAIN ToLower THEN ToLower[c] ELSE c

Lower(s) == [i \in 1..Len(s) |-> LowerChar(s[i])]

\* Python's  q in s  on strings
PyIn(q, s) ==
    \E i \in 0..(Len(s) - Len(q)) : SubSeq(s, i + 1, i + Len(q)) = q

RECURSIVE Like(_, _)
\* SQL  s LIKE p : % matches any run of characters, _ any one character
Like(p, s) ==
    IF p = <<>> THEN s = <<>>
    ELSE IF Head(p) = "%"
         THEN Like(Tail(p), s) \/ (s # <<>> /\ Like(p, Tail(s)))
         ELSE /\ s # <<>>
              /\ (Head(p) = "_" \/ Head(p) = Head(s))
              /\ Like(Tail(p), Tail(s))

\* column.ilike(pattern): lower(column) LIKE lower(pattern)
ilike(column, pattern) == Like(Lower(pattern), Lower(column))

\* ilike on a nullable column: NULL matches nothing
ilike_nullable(column, pattern) ==
    column # NULL /\ ilike(column[1], pattern)

\* datetime.fromisoformat: a date without a time is midnight
fromisoformat(iso) == datetime(iso.d, Get(iso, "h", 0))

\* rows when present, filtered by Test; rows unchanged otherwise
Where(rows, present, Test(_)) ==
    IF present THEN SelectSeq(rows, Test) ELSE rows

RECURSIVE order_by_date_desc(_)
\* ORDER BY date DESC: every ordering of the rows with non-increasing
\* dates (SQL leaves the order of rows with equal dates open); a row of the
\* latest date comes first, then the other rows in such an ordering
order_by_date_desc(rows) ==
    IF rows = <<>> THEN {<<>>}
    ELSE UNION {
        {<<rows[i]>> \o rest :
            rest \in order_by_date_desc(SubSeq(rows, 1, i - 1)
                                        \o SubSeq(rows, i + 1, Len(rows)))} :
        i \in {k \in 1..Len(rows) :
                  \A j \in 1..Len(rows) : rows[j].date <= rows[k].date}}

----------------------------------------------------------------------------
(* The database session.  A handler threads st = [accounts, transactions,  *)
(* writes] through its commits; writes lists the account ids whose balance *)
(* update_account_balance committed, in order.  A handler result is        *)
(* [st, raised, ret]: the committed state, whether an exception left the   *)
(* handler, and the return value.                                          *)

AccountIndex(accs, account_id) ==
    {i \in 1..Len(accs) : accs[i].id = account_id}

TransactionIndex(txns, transaction_id) ==
    {i \in 1..Len(txns) : txns[i].id = transaction_id}

RemoveAt(s, i) == SubSeq(s, 1, i - 1) \o SubSeq(s, i + 1, Len(s))

\* update_account_balance with the account filter of the sum query lost
update_account_balance_unfiltered(st, account_id) ==
    LET idx == AccountIndex(st.accounts, account_id)
    IN IF idx = {}
       THEN [st |-> st, raised |-> TRUE, ret |-> NULL]
       ELSE LET i == CHOOSE j \in idx : TRUE
                transaction_sum == st.transactions
                amounts == [k \in 1..Len(transaction_sum) |->
                               transaction_sum[k].amount]
                new_balance == IF transaction_sum # <<>>
                               THEN PySum(amounts) ELSE 0
            IN [st |-> [st EXCEPT !.accounts[i].balance = new_balance,
                                  !.writes = Append(@, account_id)],
                raised |-> FALSE,
                ret |-> Some(new_balance)]

RECURSIVE reconcile_from(_, _, _)
\* the balance of every account from position i on set to its sum
reconcile_from(accs, txns, i) ==
    IF i > Len(accs) THEN accs
    ELSE reconcile_from(
             [accs EXCEPT ![i].balance =
                 LET rows == SelectSeq(txns,
                                 LAMBDA t : t.account_id = accs[i].id)
                 IN IF rows = <<>> THEN 0
                    ELSE PySum([k \in 1..Len(rows) |-> rows[k].amount])],
             txns, i + 1)

\* update_account_balance reconciling every stored account, not the one
update_account_balance_all(st, account_id) ==
    IF AccountIndex(st.accounts, account_id) = {}
    THEN [st |-> st, raised |-> TRUE, ret |-> NULL]
    ELSE [st |-> [st EXCEPT
                    !.accounts = reconcile_from(st.accounts,
                                                st.transactions, 1),
                    !.writes = Append(@, account_id)],
          raised |-> FALSE, ret |-> Some(0)]

\* update_account_balance taking a missing account for one with no
\* transactions: it returns 0 and raises nothing
update_account_balance_silent(st, account_id) ==
    LET idx == AccountIndex(st.accounts, account_id)
    IN IF idx = {}
       THEN [st |-> st, raised |-> FALSE, ret |-> Some(0)]
       ELSE LET i == CHOOSE j \in idx : TRUE
                transaction_sum ==
                    SelectSeq(st.transactions,
                              LAMBDA t : t.account_id = account_id)
                amounts == [k \in 1..Len(transaction_sum) |->
                               transaction_sum[k].amount]
                new_balance == IF transaction_sum # <<>>
                               THEN PySum(amounts) ELSE 0
            IN [st |-> [st EXCEPT !.accounts[i].balance = new_balance,
                                  !.writes = Append(@, account_id)],
                raised |-> FALSE,
                ret |-> Some(new_balance)]

\* BalanceService.update_account_balance
update_account_balance(st, account_id) ==
    LET idx == AccountIndex(st.accounts, account_id)
    IN IF idx = {}
       THEN [st |-> st, raised |-> TRUE, ret |-> NULL]
       ELSE LET i == CHOOSE j \in idx : TRUE
                transaction_sum ==
                    SelectSeq(st.transactions,
                              LAMBDA t : t.account_id = account_id)
                amounts == [k \in 1..Len(transaction_sum) |->
                               transaction_sum[k].amount]
                new_balance == IF transaction_sum # <<>>
                               THEN PySum(amounts) ELSE 0
            IN [st |-> [st EXCEPT !.accounts[i].balance = new_balance,
                                  !.writes = Append(@, account_id)],
                raised |-> FALSE,
                ret |-> Some(new_balance)]

\* create_transaction without the balance update after the commit
create_transaction_no_reconcile(st, transaction_data, transaction_id) ==
    LET new_transaction ==
            [id |-> transaction_id,
             account_id |-> transaction_data.account_id,
             date |-> transaction_data.date,
             amount |-> transaction_data.amount,
             description |-> Get(transaction_data, "description", <<>>),
             category |-> Get(transaction_data, "category", <<>>),
             is_income |-> Get(transaction_data, "amount", 0) > 0,
             payee |-> IF Has(transaction_data, "payee")
                       THEN Some(transaction_data.payee) ELSE NULL,
             is_reconciled |-> Get(transaction_data, "is_reconciled", FALSE)]
        st1 == [st EXCEPT !.transactions = Append(@, new_transaction)]
    IN IF AccountIndex(st.accounts, new_transaction.account_id) = {}
       THEN [st |-> st1, raised |-> TRUE, ret |-> NULL]
       ELSE [st |-> st1, raised |-> FALSE, ret |-> Some(new_transaction)]

\* TransactionRepository.create_transaction
create_transaction(st, transaction_data, transaction_id) ==
    LET new_transaction ==
            [id |-> transaction_id,
             account_id |-> transaction_data.account_id,
             date |-> transaction_data.date,
             amount |-> transaction_data.amount,
             description |-> Get(transaction_data, "description", <<>>),
             category |-> Get(transaction_data, "category", <<>>),
             is_income |-> Get(transaction_data, "amount", 0) > 0,
             payee |-> IF Has(transaction_data, "payee")
                       THEN Some(transaction_data.payee) ELSE NULL,
             is_reconciled |-> Get(transaction_data, "is_reconciled", FALSE)]
        st1 == [st EXCEPT !.transactions = Append(@, new_transaction)]
        r == update_account_balance(st1, new_transaction.account_id)
    IN IF r.raised
       THEN [st |-> st1, raised |-> TRUE, ret |-> NULL]
       ELSE [st |-> r.st, raised |-> FALSE, ret |-> Some(new_transaction)]

\* update_transaction that sets amount and leaves is_income as it was
update_transaction_stale_is_income(st, transaction_id, transaction_data) ==
    LET idx == TransactionIndex(st.transactions, transaction_id)
    IN IF idx = {}
       THEN [st |-> st, raised |-> FALSE, ret |-> NULL]
       ELSE LET i == CHOOSE j \in idx : TRUE
                old == st.transactions[i]
                transaction ==
                    [id |-> old.id,
                     account_id |-> Get(transaction_data, "account_id",
                                        old.account_id),
                     date |-> Get(transaction_data, "date", old.date),
                     amount |-> Get(transaction_data, "amount", old.amount),
                     is_income |-> old.is_income,
                     description |-> Get(transaction_data, "description",
                                         old.description),
                     category |-> Get(transaction_data, "category",
                                      old.category),
                     payee |-> IF Has(transaction_data, "payee")
                               THEN Some(transaction_data.payee)
                               ELSE old.payee,
                     is_reconciled |-> Get(transaction_data, "is_reconciled",
                                           old.is_reconciled)]
                st1 == [st EXCEPT !.transactions[i] = transaction]
                r1 == update_account_balance(st1, transaction.account_id)
                \* the comparison reads the refreshed row, which already
                \* carries the new account_id
                r2 == IF Has(transaction_data, "account_id")
                         /\ transaction_data.account_id # transaction.account_id
                      THEN update_account_balance(r1.st,
                                                  transaction_data.account_id)
                      ELSE r1
            IN IF r1.raised
               THEN [st |-> st1, raised |-> TRUE, ret |-> NULL]
               ELSE IF r2.raised
               THEN [st |-> r1.st, raised |-> TRUE, ret |-> NULL]
               ELSE [st |-> r2.st, raised |-> FALSE, ret |-> Some(transaction)]

\* TransactionRepository.update_transaction
update_transaction(st, transaction_id, transaction_data) ==
    LET idx == TransactionIndex(st.transactions, transaction_id)
    IN IF idx = {}
       THEN [st |-> st, raised |-> FALSE, ret |-> NULL]
       ELSE LET i == CHOOSE j \in idx : TRUE
                old == st.transactions[i]
                transaction ==
                    [id |-> old.id,
                     account_id |-> Get(transaction_data, "account_id",
                                        old.account_id),
                     date |-> Get(transaction_data, "date", old.date),
                     amount |-> Get(transaction_data, "amount", old.amount),
                     is_income |-> IF Has(transaction_data, "amount")
                                   THEN transaction_data.amount > 0
                                   ELSE old.is_income,
                     description |-> Get(transaction_data, "description",
                                         old.description),
                     category |-> Get(transaction_data, "category",
                                      old.category),
                     payee |-> IF Has(transaction_data, "payee")
                               THEN Some(transaction_data.payee)
                               ELSE old.payee,
                     is_reconciled |-> Get(transaction_data, "is_reconciled",
                                           old.is_reconciled)]
                st1 == [st EXCEPT !.transactions[i] = transaction]
                r1 == update_account_balance(st1, transaction.account_id)
                \* the comparison reads the refreshed row, which already
                \* carries the new account_id
                r2 == IF Has(transaction_data, "account_id")
                         /\ transaction_data.account_id # transaction.account_id
                      THEN update_account_balance(r1.st,
                                                  transaction_data.account_id)
                      ELSE r1
            IN IF r1.raised
               THEN [st |-> st1, raised |-> TRUE, ret |-> NULL]
               ELSE IF r2.raised
               THEN [st |-> r1.st, raised |-> TRUE, ret |-> NULL]
               ELSE [st |-> r2.st, raised |-> FALSE, ret |-> Some(transaction)]

\* delete_transaction without the balance update after the commit
delete_transaction_no_reconcile(st, transaction_id) ==
    LET idx == TransactionIndex(st.transactions, transaction_id)
    IN IF idx = {}
       THEN [st |-> st, raised |-> FALSE, ret |-> FALSE]
       ELSE LET i == CHOOSE j \in idx : TRUE
            IN [st |-> [st EXCEPT !.transactions = RemoveAt(@, i)],
                raised |-> FALSE, ret |-> TRUE]

\* TransactionRepository.delete_transaction
delete_transaction(st, transaction_id) ==
    LET idx == TransactionIndex(st.transactions, transaction_id)
    IN IF idx = {}
       THEN [st |-> st, raised |-> FALSE, ret |-> FALSE]
       ELSE LET i == CHOOSE j \in idx : TRUE
                account_id == st.transactions[i].account_id
                st1 == [st EXCEPT !.transactions = RemoveAt(@, i)]
                r == update_account_balance(st1, account_id)
            IN IF r.raised
               THEN [st |-> st1, raised |-> TRUE, ret |-> FALSE]
               ELSE [st |-> r.st, raised |-> FALSE, ret |-> TRUE]

RECURSIVE import_create_loop(_, _, _, _, _)
\* the for loop of import_transactions: create each item in turn
import_create_loop(st, items, transaction_id, imported, affected) ==
    IF items = <<>>
    THEN [st |-> st, raised |-> FALSE, imported |-> imported,
          affected |-> affected]
    ELSE LET r == create_transaction(st, Head(items), transaction_id)
         IN IF r.raised
            THEN [st |-> r.st, raised |-> TRUE, imported |-> imported,
                  affected |-> affected]
            ELSE import_create_loop(r.st, Tail(items), transaction_id + 1,
                                    Append(imported, r.ret[1]),
                                    affected \cup {r.ret[1].account_id})

RECURSIVE import_balance_loop(_, _)
\* the second loop of import_transactions, over the set of affected accounts
\* (the visiting order of a set does not change the balances written)
import_balance_loop(st, affected) ==
    IF affected = {}
    THEN [st |-> st, raised |-> FALSE]
    ELSE LET account_id == CHOOSE a \in affected :
                               \A b \in affected : a <= b
             r == update_account_balance(st, account_id)
         IN IF r.raised
            THEN [st |-> st, raised |-> TRUE]
            ELSE import_balance_loop(r.st, affected \ {account_id})

\* import_transactions as one unit of work: a failure undoes the whole batch
import_transactions_atomic(st, items, transaction_id) ==
    LET c == import_create_loop(st, items, transaction_id, <<>>, {})
        b == import_balance_loop(c.st, c.affected)
    IN IF c.raised \/ b.raised
       THEN [st |-> st, raised |-> TRUE, ret |-> <<>>]
       ELSE [st |-> b.st, raised |-> FALSE, ret |-> c.imported]

\* TransactionRepository.import_transactions
import_transactions(st, items, transaction_id) ==
    LET c == import_create_loop(st, items, transaction_id, <<>>, {})
        b == import_balance_loop(c.st, c.affected)
    IN IF c.raised
       THEN [st |-> c.st, raised |-> TRUE, ret |-> c.imported]
       ELSE [st |-> b.st, raised |-> b.raised, ret |-> c.imported]

\* TransactionServiceDB.import_transactions
service_import_transactions(st, account_id, items, transaction_id) ==
    import_transactions(
        st,
        [k \in 1..Len(items) |-> SetKey(items[k], "account_id", account_id)],
        transaction_id)

RECURSIVE LexLess(_, _)
\* a < b for two strings of digits, compared as Python and SQL compare str
LexLess(a, b) ==
    IF b = <<>> THEN FALSE
    ELSE IF a = <<>> THEN TRUE
    ELSE IF Head(a) # Head(b) THEN Head(a) < Head(b)
    ELSE LexLess(Tail(a), Tail(b))

\* the digits after "acc-" of the id f"acc-{n:03d}"
AccountIdDigits(n) == PadZeros(Decimal(n), 3)

\* the numeric part of the id that create_account assigns: one more than
\* int() of the digits of the id that order_by(Account.id.desc()) puts
\* first, which is the last id in the order of strings
new_account_id(accs) ==
    IF accs = <<>> THEN 1
    ELSE LET ids == {accs[i].id : i \in 1..Len(accs)}
             last_id == CHOOSE n \in ids :
                            \A m \in ids \ {n} :
                                LexLess(AccountIdDigits(m),
                                        AccountIdDigits(n))
         IN last_id + 1

\* AccountRepository.create_account; now is the reading of
\* datetime.now(timezone.utc), dict.get(k) of an absent key is None
create_account(st, account_data, now) ==
    LET new_account ==
            [id |-> new_account_id(st.accounts),
             name |-> Get(account_data, "name", NULL),
             type_id |-> Get(account_data, "type", NULL),
             institution_id |-> Get(account_data, "institution", NULL),
             balance |-> Get(account_data, "balance", 0),
             currency |-> Get(account_data, "currency", "USD"),
             is_active |-> TRUE,
             notes |-> Get(account_data, "notes", NULL),
             created_at |-> now,
             updated_at |-> now]
    IN IF AccountIndex(st.accounts, new_account.id) # {}
       THEN \* the commit violates the primary key: IntegrityError
            [st |-> st, raised |-> TRUE, ret |-> NULL]
       ELSE [st |-> [st EXCEPT !.accounts = Append(@, new_account)],
             raised |-> FALSE, ret |-> Some(new_account)]

\* update_account that sets is_active as create_account does when the
\* payload has no is_active
update_account_reactivate(st, account_id, account_data, now) ==
    LET idx == AccountIndex(st.accounts, account_id)
    IN IF idx = {}
       THEN [st |-> st, raised |-> FALSE, ret |-> NULL]
       ELSE LET i == CHOOSE j \in idx : TRUE
                old == st.accounts[i]
                account ==
                    [old EXCEPT
                       !.name = Get(account_data, "name", @),
                       !.type_id = Get(account_data, "type", @),
                       !.institution_id =
                           Get(account_data, "institution", @),
                       !.balance = Get(account_data, "balance", @),
                       !.currency = Get(account_data, "currency", @),
                       !.is_active = Get(account_data, "is_active", TRUE),
                       !.notes = Get(account_data, "notes", @),
                       !.updated_at = now]
            IN [st |-> [st EXCEPT !.accounts[i] = account],
                raised |-> FALSE, ret |-> Some(account)]

\* AccountRepository.update_account
update_account(st, account_id, account_data, now) ==
    LET idx == AccountIndex(st.accounts, account_id)
    IN IF idx = {}
       THEN [st |-> st, raised |-> FALSE, ret |-> NULL]
       ELSE LET i == CHOOSE j \in idx : TRUE
                old == st.accounts[i]
                account ==
                    [old EXCEPT
                       !.name = Get(account_data, "name", @),
                       !.type_id = Get(account_data, "type", @),
                       !.institution_id =
                           Get(account_data, "institution", @),
                       !.balance = Get(account_data, "balance", @),
                       !.currency = Get(account_data, "currency", @),
                       !.is_active = Get(account_data, "is_active", @),
                       !.notes = Get(account_data, "notes", @),
                       !.updated_at = now]
            IN [st |-> [st EXCEPT !.accounts[i] = account],
                raised |-> FALSE, ret |-> Some(account)]

\* delete_account without the cascade to the account's transactions
delete_account_no_cascade(st, account_id) ==
    LET idx == AccountIndex(st.accounts, account_id)
    IN IF idx = {}
       THEN [st |-> st, raised |-> FALSE, ret |-> FALSE]
       ELSE LET i == CHOOSE j \in idx : TRUE
            IN [st |-> [st EXCEPT !.accounts = RemoveAt(@, i)],
                raised |-> FALSE, ret |-> TRUE]

\* AccountRepository.delete_account, with the cascade of
\* Account.transactions (cascade="all, delete-orphan")
delete_account(st, account_id) ==
    LET idx == AccountIndex(st.accounts, account_id)
    IN IF idx = {}
       THEN [st |-> st, raised |-> FALSE, ret |-> FALSE]
       ELSE LET i == CHOOSE j \in idx : TRUE
            IN [st |-> [st EXCEPT
                          !.accounts = RemoveAt(@, i),
                          !.transactions =
                              SelectSeq(@, LAMBDA t :
                                               t.account_id # account_id)],
                raised |-> FALSE, ret |-> TRUE]

\* AccountRepository.get_total_balance
get_total_balance(accs) ==
    PySum([i \in 1..Len(accs) |-> accs[i].balance])

\* get_net_worth with the abs() of the liabilities lost
get_net_worth_signed(accs) ==
    LET pos == SelectSeq(accs, LAMBDA a : a.balance > 0)
        neg == SelectSeq(accs, LAMBDA a : a.balance < 0)
        assets == PySum([i \in 1..Len(pos) |-> pos[i].balance])
        liabilities == PySum([i \in 1..Len(neg) |-> neg[i].balance])
    IN FAdd(assets, -liabilities)

\* AccountRepository.get_net_worth
get_net_worth(accs) ==
    LET pos == SelectSeq(accs, LAMBDA a : a.balance > 0)
        neg == SelectSeq(accs, LAMBDA a : a.balance < 0)
        assets == PySum([i \in 1..Len(pos) |-> pos[i].balance])
        liabilities == PySum([i \in 1..Len(neg) |-> Abs(neg[i].balance)])
    IN FAdd(assets, -liabilities)

\* the WHERE clauses of filter_transactions, with max_amount made strict
filter_rows_strict_max(txns, filters) ==
    Where(Where(Where(Where(Where(Where(Where(txns,
        Has(filters, "account_id"),
            LAMBDA t : t.account_id = filters.account_id),
        Has(filters, "category"),
            LAMBDA t : t.category = filters.category),
        Has(filters, "start_date"),
            LAMBDA t : t.date >= fromisoformat(filters.start_date)),
        Has(filters, "end_date"),
            LAMBDA t : t.date <= fromisoformat(filters.end_date)),
        Has(filters, "min_amount"),
            LAMBDA t : t.amount >= filters.min_amount),
        Has(filters, "max_amount"),
            LAMBDA t : t.amount < filters.max_amount),
        Has(filters, "is_reconciled"),
            LAMBDA t : t.is_reconciled = filters.is_reconciled)

\* TransactionRepository.filter_transactions: the WHERE clauses
filter_rows(txns, filters) ==
    Where(Where(Where(Where(Where(Where(Where(txns,
        Has(filters, "account_id"),
            LAMBDA t : t.account_id = filters.account_id),
        Has(filters, "category"),
            LAMBDA t : t.category = filters.category),
        Has(filters, "start_date"),
            LAMBDA t : t.date >= fromisoformat(filters.start_date)),
        Has(filters, "end_date"),
            LAMBDA t : t.date <= fromisoformat(filters.end_date)),
        Has(filters, "min_amount"),
            LAMBDA t : t.amount >= filters.min_amount),
        Has(filters, "max_amount"),
            LAMBDA t : t.amount <= filters.max_amount),
        Has(filters, "is_reconciled"),
            LAMBDA t : t.is_reconciled = filters.is_reconciled)

\* TransactionRepository.filter_transactions: the possible results
filter_transactions(txns, filters) ==
    order_by_date_desc(filter_rows(txns, filters))

\* TransactionRepository.search_transactions: the WHERE clause
search_rows(txns, query) ==
    SelectSeq(txns, LAMBDA t :
        \/ ilike(t.description, <<"%">> \o query \o <<"%">>)
        \/ ilike(t.category, <<"%">> \o query \o <<"%">>)
        \/ ilike_nullable(t.payee, <<"%">> \o query \o <<"%">>))

\* TransactionRepository.search_transactions: the possible results
search_transactions(txns, query) ==
    order_by_date_desc(search_rows(txns, query))

\* TransactionService.add_transaction
mem_add_transaction(mem, transaction_data, transaction_id) ==
    Append(mem,
           [k \in {"id", "is_reconciled"} \cup DOMAIN transaction_data |->
               IF k \in DOMAIN transaction_data THEN transaction_data[k]
               ELSE IF k = "id" THEN transaction_id
               ELSE FALSE])

\* TransactionService.search_transactions
mem_search_transactions(mem, query) ==
    SelectSeq(mem, LAMBDA t :
        \/ PyIn(Lower(query), Lower(t.payee))
        \/ PyIn(Lower(query), Lower(t.category))
        \/ PyIn(Lower(query), Lower(t.description)))

\* TransactionService.filter_transactions
mem_filter_transactions(mem, filters) ==
    Where(Where(Where(Where(Where(Where(Where(mem,
        Has(filters, "account_id"),
            LAMBDA t : t.account_id = filters.account_id),
        Has(filters, "category"),
            LAMBDA t : t.category = filters.category),
        Has(filters, "start_date"),
            LAMBDA t : fromisoformat(t.date)
                           >= fromisoformat(filters.start_date)),
        Has(filters, "end_date"),
            LAMBDA t : fromisoformat(t.date)
                           <= fromisoformat(filters.end_date)),
        Has(filters, "min_amount"),
            LAMBDA t : t.amount >= filters.min_amount),
        Has(filters, "max_amount"),
            LAMBDA t : t.amount <= filters.max_amount),
        Has(filters, "is_reconciled"),
            LAMBDA t : t.is_reconciled = filters.is_reconciled)

----------------------------------------------------------------------------
(* Inputs of the ledger specification *)

TxnDates == {datetime(14, 0)}

\* transaction_data of create_transaction and of the items of an import
TxnData == [account_id : AccIds, amount : Amounts, date : TxnDates]

\* transaction_data of update_transaction: any subset of the keys
TxnPatches ==
    {<<>>} \cup [account_id : AccIds] \cup [amount : Amounts]
           \cup [account_id : AccIds, amount : Amounts]

\* the items of an import carry an account_id of their own
BatchItemData == [account_id : {1}, amount : Amounts, date : TxnDates]

Batches == UNION {[1..n -> BatchItemData] : n \in 1..MaxBatch}

AccountData == [name : Names] \cup [name : Names, balance : Balances]

AccountPatches ==
    {<<>>} \cup [name : Names] \cup [balance : Balances]

TidRange == 1..MaxTxns

\* the ledger does not look at timestamps: every call of the ledger
\* specification reads the same instant from datetime.now()
LedgerNow == 0

----------------------------------------------------------------------------
(* Calls *)

NoCall == [op |-> "none"]

\* the bank connection tables of a new database; ids counts the uuid4()
\* identifiers handed out for connections and links
NoBank == [connections |-> <<>>, links |-> <<>>, ids |-> 0]

----------------------------------------------------------------------------
(* Ledger specification: the database-backed repositories *)

DB == [accounts |-> accounts, transactions |-> transactions, writes |-> <<>>]

Commit(r) ==
    /\ accounts' = r.st.accounts
    /\ transactions' = r.st.transactions

\* what the account and transaction handlers of the database do not touch
\* no request is in flight, the in-memory account service is not in use
\* and no migration manager has run
NoSessions == <<>>
NoMemAccounts == <<>>
NoMigrations == <<>>

MemUnchanged ==
    UNCHANGED <<memTransactions, memNextTid, bank, sessions, memAccounts,
                migrations>>

\* the account a stored transaction belongs to, 0 when the id is unknown
AccountOfTransaction(txns, transaction_id) ==
    LET idx == TransactionIndex(txns, transaction_id)
    IN IF idx = {} THEN 0 ELSE txns[CHOOSE j \in idx : TRUE].account_id

CreateTransaction ==
    \E data \in TxnData :
        /\ nextTid < MaxTxns
        /\ LET r == create_transaction(DB, data, nextTid + 1)
           IN /\ Commit(r)
              /\ last' = [op |-> "create_transaction", raised |-> r.raised,
                          account_id |-> data.account_id,
                          writes |-> r.st.writes]
        /\ nextTid' = nextTid + 1
        /\ MemUnchanged

UpdateTransaction ==
    \E tid \in TidRange, data \in TxnPatches :
        /\ LET r == update_transaction(DB, tid, data)
           IN /\ Commit(r)
              /\ last' = [op |-> "update_transaction", raised |-> r.raised,
                          found |-> TransactionIndex(transactions, tid) # {},
                          old_account_id |->
                              AccountOfTransaction(transactions, tid),
                          account_id |->
                              AccountOfTransaction(r.st.transactions, tid),
                          writes |-> r.st.writes]
        /\ UNCHANGED nextTid
        /\ MemUnchanged

DeleteTransaction ==
    \E tid \in TidRange :
        /\ LET r == delete_transaction(DB, tid)
           IN /\ Commit(r)
              /\ last' = [op |-> "delete_transaction", raised |-> r.raised,
                          ret |-> r.ret,
                          account_id |->
                              AccountOfTransaction(transactions, tid),
                          writes |-> r.st.writes]
        /\ UNCHANGED nextTid
        /\ MemUnchanged

ImportTransactions ==
    \E account_id \in AccIds, items \in Batches :
        /\ nextTid + Len(items) <= MaxTxns
        /\ LET r == service_import_transactions(DB, account_id, items,
                                                nextTid + 1)
           IN /\ Commit(r)
              /\ last' = [op |-> "import_transactions", raised |-> r.raised,
                          account_id |-> account_id,
                          n |-> Len(items),
                          writes |-> r.st.writes]
              /\ nextTid' = nextTid + Len(r.st.transactions)
                                    - Len(transactions)
        /\ MemUnchanged

Reconcile ==
    \E account_id \in AccIds :
        /\ LET r == update_account_balance(DB, account_id)
           IN /\ Commit(r)
              /\ last' = [op |-> "update_account_balance",
                          raised |-> r.raised,
                          account_id |-> account_id,
                          ret |-> r.ret,
                          writes |-> r.st.writes]
        /\ UNCHANGED nextTid
        /\ MemUnchanged

CreateAccountFrom(DataSet, Ids) ==
    \E data \in DataSet :
        /\ new_account_id(accounts) \in Ids
        /\ LET r == create_account(DB, data, LedgerNow)
           IN /\ Commit(r)
              /\ last' = [op |-> "create_account", raised |-> r.raised,
                          account_id |-> r.ret[1].id,
                          writes |-> r.st.writes]
        /\ UNCHANGED nextTid
        /\ MemUnchanged

UpdateAccount ==
    \E account_id \in AccIds, data \in AccountPatches :
        /\ LET r == update_account(DB, account_id, data, LedgerNow)
           IN /\ Commit(r)
              /\ last' = [op |-> "update_account", raised |-> r.raised,
                          account_id |-> account_id,
                          found |-> r.ret # NULL,
                          writes |-> r.st.writes]
        /\ UNCHANGED nextTid
        /\ MemUnchanged

DeleteAccountIn(Ids) ==
    \E account_id \in Ids :
        /\ LET r == delete_account(DB, account_id)
           IN /\ Commit(r)
              /\ last' = [op |-> "delete_account", raised |-> r.raised,
                          account_id |-> account_id,
                          ret |-> r.ret,
                          removed |-> Len(transactions)
                                        - Len(r.st.transactions),
                          writes |-> r.st.writes]
        /\ UNCHANGED nextTid
        /\ MemUnchanged

CreateAccount == CreateAccountFrom(AccountData, AccIds)

DeleteAccount == DeleteAccountIn(AccIds)

Init ==
    /\ accounts = <<>>
    /\ transactions = <<>>
    /\ nextTid = 0
    /\ last = NoCall
    /\ memTransactions = <<>>
    /\ memNextTid = 0
    /\ bank = NoBank
    /\ sessions = NoSessions
    /\ memAccounts = NoMemAccounts
    /\ migrations = NoMigrations

Next ==
    \/ CreateTransaction
    \/ UpdateTransaction
    \/ DeleteTransaction
    \/ ImportTransactions
    \/ Reconcile
    \/ CreateAccount
    \/ UpdateAccount
    \/ DeleteAccount

Spec == Init /\ [][Next]_vars

----------------------------------------------------------------------------
(* Properties of the ledger specification *)

RECURSIVE SumUpTo(_, _, _)
\* exact sum of the amounts of the first n rows of txns that belong to
\* account_id
SumUpTo(txns, account_id, n) ==
    IF n = 0 THEN 0
    ELSE SumUpTo(txns, account_id, n - 1)
         + (IF txns[n].account_id = account_id THEN txns[n].amount ELSE 0)

LedgerSum(txns, account_id) == SumUpTo(txns, account_id, Len(txns))

Exists(accs, account_id) == AccountIndex(accs, account_id) # {}

BalanceOf(accs, account_id) ==
    accs[CHOOSE i \in AccountIndex(accs, account_id) : TRUE].balance

Balanced(accs, txns, account_id) ==
    BalanceOf(accs, account_id) = LedgerSum(txns, account_id)

Occurrences(s, x) == Cardinality({i \in 1..Len(s) : s[i] = x})

\* the last call was a transaction mutation that returned normally and
\* found the transaction it addresses
MutationSucceeded ==
    \/ last.op = "create_transaction" /\ ~last.raised
    \/ last.op = "update_transaction" /\ ~last.raised /\ last.found
    \/ last.op = "delete_transaction" /\ ~last.raised /\ last.ret
    \/ last.op = "import_transactions" /\ ~last.raised

\* C1: immediately after a successful transaction create, update, delete or
\* import, the stored balance of the account the transaction belongs to
\* (for delete: belonged to) equals the sum of the amounts of the
\* transactions stored for that account.
C1_BalanceAfterMutation ==
    MutationSucceeded =>
        /\ Exists(accounts, last.account_id)
        /\ Balanced(accounts, transactions, last.account_id)

C1_Witness ==
    /\ last.op = "update_transaction" /\ ~last.raised /\ last.found
    /\ last.old_account_id # last.account_id
    /\ Len(transactions) = 2
    /\ LedgerSum(transactions, last.account_id) = 1
    /\ Balanced(accounts, transactions, last.account_id)

\* C2: when update_transaction moves a transaction from account X to a
\* different account Y, reconciliation runs for both accounts: after the
\* update returns X's stored balance equals
\* the sum of X's remaining transactions and Y's stored balance equals the
\* sum of Y's transactions.
C2_UpdateReconcilesBothAccounts ==
    ( /\ last.op = "update_transaction" /\ ~last.raised /\ last.found
      /\ last.old_account_id # last.account_id
      /\ Exists(accounts, last.old_account_id) )
    => /\ Occurrences(last.writes, last.old_account_id) >= 1
       /\ Occurrences(last.writes, last.account_id) >= 1
       /\ Balanced(accounts, transactions, last.old_account_id)
       /\ Balanced(accounts, transactions, last.account_id)

\* C3: an import of N >= 1 items into one target account writes that
\* account's balance exactly once during the whole import.
C3_ImportReconcilesOnce ==
    (last.op = "import_transactions" /\ ~last.raised /\ last.n >= 1)
    => Occurrences(last.writes, last.account_id) = 1

\* C4: reconcile(account_id) on an existing account returns normally, sets
\* the account's stored balance to the sum of the amounts of the
\* transactions of that account (0 when it has none) and returns that value.
C4_ReconcileSetsBalanceToSum ==
    (last.op = "update_account_balance"
        /\ Exists(accounts, last.account_id))
    => /\ ~last.raised
       /\ Balanced(accounts, transactions, last.account_id)
       /\ last.ret = Some(LedgerSum(transactions, last.account_id))

C4_Witness ==
    /\ last.op = "update_account_balance" /\ ~last.raised
    /\ Len(transactions) = 2
    /\ LedgerSum(transactions, last.account_id) = 3
    /\ last.ret = Some(3)
    /\ BalanceOf(accounts, last.account_id) = 3

\* C21: reconcile(account_id) for an account id that is not stored raises
\* to the caller, returns no balance, and leaves every stored account and
\* transaction as it was.
C21_ReconcileMissingAccountRaises ==
    [][(last'.op = "update_account_balance"
            /\ ~Exists(accounts, last'.account_id))
        => /\ last'.raised
           /\ last'.ret = NULL
           /\ accounts' = accounts
           /\ transactions' = transactions]_vars

\* reconcile has raised for an account that is not stored although a
\* transaction names it, beside a stored account with a balance
C21_Witness ==
    /\ last.op = "update_account_balance" /\ last.raised
    /\ ~Exists(accounts, last.account_id)
    /\ \E i \in 1..Len(transactions) :
           transactions[i].account_id = last.account_id
    /\ \E i \in 1..Len(accounts) : accounts[i].balance # 0

RowsOf(txns, account_id) ==
    SelectSeq(txns, LAMBDA t : t.account_id = account_id)

\* C10: after delete(account A) succeeds no stored transaction has
\* account_id A, and the transactions of every other account are unchanged.
C10_DeleteAccountCascades ==
    [][(last'.op = "delete_account" /\ last'.ret)
        => /\ RowsOf(transactions', last'.account_id) = <<>>
           /\ \A b \in AccIds \ {last'.account_id} :
                  RowsOf(transactions', b) = RowsOf(transactions, b)]_vars

C10_Witness ==
    /\ last.op = "delete_account" /\ last.ret
    /\ last.removed >= 1
    /\ transactions # <<>>
    /\ RowsOf(transactions, last.account_id) = <<>>

----------------------------------------------------------------------------
(* Aggregate specification: total balance and net worth over accounts     *)
(* whose balances are floats large enough for sums to round               *)

FloatBalances == {-2, 0, 2, Pow2(FloatPrecision) - 1}

FloatAccountData == [name : Names, balance : FloatBalances]

FloatCreateAccount ==
    CreateAccountFrom(FloatAccountData, 1..MaxFloatAccId)

FloatDeleteAccount == DeleteAccountIn(1..MaxFloatAccId)

GetTotalBalance ==
    /\ last' = [op |-> "get_total_balance",
                ret |-> get_total_balance(accounts)]
    /\ UNCHANGED <<accounts, transactions, nextTid>>
    /\ MemUnchanged

GetNetWorth ==
    /\ last' = [op |-> "get_net_worth", ret |-> get_net_worth(accounts)]
    /\ UNCHANGED <<accounts, transactions, nextTid>>
    /\ MemUnchanged

NextFloat ==
    \/ FloatCreateAccount
    \/ FloatDeleteAccount
    \/ GetTotalBalance
    \/ GetNetWorth

SpecFloat == Init /\ [][NextFloat]_vars

RECURSIVE SumAbsUpTo(_, _)
\* exact sum of the absolute values of the first n balances
SumAbsUpTo(accs, n) ==
    IF n = 0 THEN 0 ELSE SumAbsUpTo(accs, n - 1) + Abs(accs[n].balance)

----------------------------------------------------------------------------
(* Query specification: filter and search of the database-backed          *)
(* repository over a store drawn at the start                             *)

\* transaction_data of the rows of the store
QueryTxnData ==
    { [account_id |-> 1, date |-> datetime(15, 0), amount |-> -3,
       category |-> <<"a", "b">>, description |-> <<"x">>,
       payee |-> <<"B", "c">>, is_reconciled |-> TRUE],
      [account_id |-> 1, date |-> datetime(14, 0), amount |-> -1,
       category |-> <<"c">>],
      [account_id |-> 2, date |-> datetime(13, 0), amount |-> 5,
       category |-> <<"a", "b">>, description |-> <<"c", "A", "b">>,
       payee |-> <<>>, is_reconciled |-> TRUE],
      [account_id |-> 1, date |-> datetime(14, 12), amount |-> 0,
       category |-> <<"a", "b">>, description |-> <<"x">>,
       is_reconciled |-> FALSE],
      [account_id |-> 2, date |-> datetime(14, 13), amount |-> 1,
       category |-> <<"c">>, description |-> <<"x">>,
       payee |-> <<"x", "B">>] }

\* a dict with any subset of the keys of full
SubDicts(full) ==
    {[k \in K |-> full[k]] : K \in SUBSET (DOMAIN full)}

\* the criteria of filter: every subset of the seven keys
Criteria ==
    SubDicts([account_id |-> 1, category |-> <<"a", "b">>,
              start_date |-> [d |-> 14],
              end_date |-> [d |-> 14, h |-> 12],
              min_amount |-> -1, max_amount |-> 0,
              is_reconciled |-> FALSE])

Queries ==
    {<<>>, <<"b">>, <<"A", "B">>, <<"c", "a">>, <<"a", "_">>, <<"x", "b">>}

\* two accounts with balance 0 and no transactions
TwoAccounts ==
    create_account(
        create_account(
            [accounts |-> <<>>, transactions |-> <<>>, writes |-> <<>>],
            [name |-> "Checking"], LedgerNow).st,
        [name |-> "Checking"], LedgerNow).st

\* the database after import_transactions of up to MaxRows items into two
\* new accounts
InitQuery ==
    \E items \in UNION {[1..n -> QueryTxnData] : n \in 0..MaxRows} :
        LET r == import_transactions(TwoAccounts, items, 1)
        IN /\ accounts = r.st.accounts
           /\ transactions = r.st.transactions
           /\ nextTid = Len(items)
           /\ last = NoCall
           /\ memTransactions = <<>>
           /\ memNextTid = 0
           /\ bank = NoBank
           /\ sessions = NoSessions
           /\ memAccounts = NoMemAccounts
           /\ migrations = NoMigrations

FilterTransactions ==
    \E filters \in Criteria :
        \E result \in filter_transactions(transactions, filters) :
            /\ last' = [op |-> "filter_transactions", filters |-> filters,
                        ret |-> result]
            /\ UNCHANGED <<accounts, transactions, nextTid>>
            /\ MemUnchanged

SearchTransactions ==
    \E query \in Queries :
        \E result \in search_transactions(transactions, query) :
            /\ last' = [op |-> "search_transactions", query |-> query,
                        ret |-> result]
            /\ UNCHANGED <<accounts, transactions, nextTid>>
            /\ MemUnchanged

NextQuery ==
    \/ FilterTransactions
    \/ SearchTransactions

SpecQuery == InitQuery /\ [][NextQuery]_vars

\* the rows of a list, as a set
Range(s) == {s[i] : i \in 1..Len(s)}

\* the stated predicate of filter: every supplied key constrains its field
Satisfies(t, c) ==
    /\ Has(c, "account_id") => t.account_id = c.account_id
    /\ Has(c, "category") => t.category = c.category
    /\ Has(c, "start_date") =>
           datetime(c.start_date.d, Get(c.start_date, "h", 0)) <= t.date
    /\ Has(c, "end_date") =>
           t.date <= datetime(c.end_date.d, Get(c.end_date, "h", 0))
    /\ Has(c, "min_amount") => c.min_amount <= t.amount
    /\ Has(c, "max_amount") => t.amount <= c.max_amount
    /\ Has(c, "is_reconciled") => t.is_reconciled = c.is_reconciled

\* C7: filter(criteria) returns exactly the stored transactions that
\* satisfy every supplied predicate, each once; a key absent from criteria
\* constrains nothing, and the empty criteria returns all transactions.
C7_FilterReturnsExactlyMatching ==
    last.op = "filter_transactions" =>
        /\ Range(last.ret) =
               {t \in Range(transactions) : Satisfies(t, last.filters)}
        /\ Len(last.ret) = Cardinality(Range(last.ret))
        /\ last.filters = <<>> => Len(last.ret) = Len(transactions)

C7_Witness ==
    /\ last.op = "filter_transactions"
    /\ Has(last.filters, "min_amount") /\ Has(last.filters, "max_amount")
    /\ Has(last.filters, "end_date")
    /\ Len(transactions) = 2
    /\ Len(last.ret) = 1
    /\ last.ret[1].amount = last.filters.max_amount
    /\ last.ret[1].date = datetime(14, 12)

IsDateDescending(dates) ==
    \A i \in 1..(Len(dates) - 1) : dates[i] >= dates[i + 1]

\* the list of the database-backed filter and search is ordered by date
\* descending
DbResultsDateDescending ==
    last.op \in {"filter_transactions", "search_transactions"} =>
        IsDateDescending([i \in 1..Len(last.ret) |-> last.ret[i].date])

\* text is a substring of s, both lower-cased
IsSubstringIgnoringCase(text, s) ==
    \E i \in 1..(Len(s) + 1) : \E j \in (i - 1)..Len(s) :
        Lower(SubSeq(s, i, j)) = Lower(text)

----------------------------------------------------------------------------
(* In-memory specification: TransactionService *)

\* TransactionService.__init__: the seeded list (amounts in cents, dates
\* as days of April 2025)
MemSeed ==
    <<
       [id |-> 1, account_id |-> 1, date |-> [d |-> 15, h |-> 0],
        amount |-> -4567,
        payee |-> <<"G", "r", "o", "c", "e", "r", "y", " ", "S", "t", "o", "r", "e">>,
        category |-> <<"G", "r", "o", "c", "e", "r", "i", "e", "s">>,
        description |-> <<"W", "e", "e", "k", "l", "y", " ", "g", "r", "o", "c", "e", "r", "y", " ", "s", "h", "o", "p", "p", "i", "n", "g">>,
        is_reconciled |-> TRUE],
       [id |-> 2, account_id |-> 1, date |-> [d |-> 14, h |-> 0],
        amount |-> -12000,
        payee |-> <<"E", "l", "e", "c", "t", "r", "i", "c", " ", "C", "o", "m", "p", "a", "n", "y">>,
        category |-> <<"U", "t", "i", "l", "i", "t", "i", "e", "s">>,
        description |-> <<"M", "o", "n", "t", "h", "l", "y", " ", "e", "l", "e", "c", "t", "r", "i", "c", " ", "b", "i", "l", "l">>,
        is_reconciled |-> TRUE],
       [id |-> 3, account_id |-> 2, date |-> [d |-> 13, h |-> 0],
        amount |-> 100000,
        payee |-> <<"E", "m", "p", "l", "o", "y", "e", "r">>,
        category |-> <<"I", "n", "c", "o", "m", "e">>,
        description |-> <<"S", "a", "l", "a", "r", "y", " ", "d", "e", "p", "o", "s", "i", "t">>,
        is_reconciled |-> TRUE],
       [id |-> 4, account_id |-> 3, date |-> [d |-> 12, h |-> 0],
        amount |-> -6599,
        payee |-> <<"R", "e", "s", "t", "a", "u", "r", "a", "n", "t">>,
        category |-> <<"D", "i", "n", "i", "n", "g">>,
        description |-> <<"D", "i", "n", "n", "e", "r", " ", "w", "i", "t", "h", " ", "f", "r", "i", "e", "n", "d", "s">>,
        is_reconciled |-> FALSE],
       [id |-> 5, account_id |-> 3, date |-> [d |-> 11, h |-> 0],
        amount |-> -2999,
        payee |-> <<"S", "t", "r", "e", "a", "m", "i", "n", "g", " ", "S", "e", "r", "v", "i", "c", "e">>,
        category |-> <<"E", "n", "t", "e", "r", "t", "a", "i", "n", "m", "e", "n", "t">>,
        description |-> <<"M", "o", "n", "t", "h", "l", "y", " ", "s", "u", "b", "s", "c", "r", "i", "p", "t", "i", "o", "n">>,
        is_reconciled |-> FALSE]
    >>

MemTxnData ==
    { [account_id |-> 1, date |-> [d |-> 16, h |-> 0], amount |-> -500,
       payee |-> <<"C", "a", "f", "e">>,
       category |-> <<"D", "i", "n", "i", "n", "g">>,
       description |-> <<"L", "u", "n", "c", "h">>],
      [account_id |-> 2, date |-> [d |-> 10, h |-> 12], amount |-> 2500,
       payee |-> <<"E", "m", "p", "l", "o", "y", "e", "r">>,
       category |-> <<"I", "n", "c", "o", "m", "e">>,
       description |-> <<"B", "o", "n", "u", "s">>,
       is_reconciled |-> TRUE],
      [account_id |-> 3, date |-> [d |-> 13], amount |-> -6599,
       payee |-> <<"D", "i", "n", "e", "r">>,
       category |-> <<"D", "i", "n", "i", "n", "g">>,
       description |-> <<>>] }

MemCriteria ==
    { <<>>,
      [account_id |-> 1],
      [category |-> <<"D", "i", "n", "i", "n", "g">>],
      [start_date |-> [d |-> 13]],
      [end_date |-> [d |-> 14]],
      [min_amount |-> -6599, max_amount |-> -500],
      [is_reconciled |-> TRUE],
      [account_id |-> 3, is_reconciled |-> FALSE] }

MemQueries ==
    {<<>>, <<"d", "i", "n">>, <<"E", "M", "P">>, <<"m", "o", "n", "t", "h">>,
     <<"z">>}

InitMem ==
    /\ accounts = <<>>
    /\ transactions = <<>>
    /\ nextTid = 0
    /\ last = NoCall
    /\ memTransactions = MemSeed
    /\ memNextTid = Len(MemSeed)
    /\ bank = NoBank
    /\ sessions = NoSessions
    /\ memAccounts = NoMemAccounts
    /\ migrations = NoMigrations

DbUnchanged ==
    UNCHANGED <<accounts, transactions, nextTid, bank, sessions, memAccounts,
                migrations>>

MemAddTransaction ==
    \E data \in MemTxnData :
        /\ memNextTid < Len(MemSeed) + MaxMemAdds
        /\ memTransactions' =
               mem_add_transaction(memTransactions, data, memNextTid + 1)
        /\ memNextTid' = memNextTid + 1
        /\ last' = [op |-> "mem_add_transaction", id |-> memNextTid + 1]
        /\ DbUnchanged

MemFilterTransactions ==
    \E filters \in MemCriteria :
        /\ last' = [op |-> "mem_filter_transactions", filters |-> filters,
                    ret |-> mem_filter_transactions(memTransactions, filters)]
        /\ UNCHANGED <<memTransactions, memNextTid>>
        /\ DbUnchanged

MemSearchTransactions ==
    \E query \in MemQueries :
        /\ last' = [op |-> "mem_search_transactions", query |-> query,
                    ret |-> mem_search_transactions(memTransactions, query)]
        /\ UNCHANGED <<memTransactions, memNextTid>>
        /\ DbUnchanged

NextMem ==
    \/ MemAddTransaction
    \/ MemFilterTransactions
    \/ MemSearchTransactions

SpecMem == InitMem /\ [][NextMem]_vars

\* C8: the list returned by filter(criteria) and by search(text) is ordered
\* by transaction date descending, in the database-backed repository and in
\* the in-memory variant.
C8_ResultsDateDescending ==
    /\ DbResultsDateDescending
    /\ last.op \in {"mem_filter_transactions", "mem_search_transactions"} =>
           IsDateDescending([i \in 1..Len(last.ret) |->
                                fromisoformat(last.ret[i].date)])

----------------------------------------------------------------------------
(* Account specification: AccountRepository with every column and the
   clock.  A call commits, which takes longer than the clock's resolution,
   so each call reads an instant later than every stored timestamp. *)

AcctCreateData ==
    {[name |-> "Checking", type |-> "checking", institution |-> "chase"],
     [name |-> "Checking", type |-> "checking", institution |-> "chase",
      balance |-> 5, currency |-> "EUR", notes |-> Some("memo")]}

AcctPatchFull ==
    [name |-> "Savings", type |-> "savings", institution |-> "boa",
     balance |-> 7, currency |-> "GBP", is_active |-> FALSE,
     notes |-> Some("changed")]

\* account_data of update_account: each key alone, each key alone missing,
\* no key, every key; notes may be given as None
AcctPatches ==
    {d \in SubDicts(AcctPatchFull) :
        \/ Cardinality(DOMAIN d) <= 1
        \/ Cardinality(DOMAIN d) >= Cardinality(DOMAIN AcctPatchFull) - 1}
    \cup {[notes |-> NULL]}

AcctNow ==
    {t \in 1..MaxClock :
        \A i \in 1..Len(accounts) : accounts[i].updated_at < t}

AcctCreate ==
    \E data \in AcctCreateData, now \in AcctNow :
        /\ new_account_id(accounts) \in AccIds
        /\ LET r == create_account(DB, data, now)
           IN /\ Commit(r)
              /\ last' = [op |-> "create_account", raised |-> r.raised,
                          account_id |-> r.ret[1].id, now |-> now]
        /\ UNCHANGED nextTid
        /\ MemUnchanged

AcctUpdate ==
    \E account_id \in AccIds, data \in AcctPatches, now \in AcctNow :
        /\ LET r == update_account(DB, account_id, data, now)
           IN /\ Commit(r)
              /\ last' = [op |-> "update_account", raised |-> r.raised,
                          account_id |-> account_id,
                          found |-> r.ret # NULL,
                          data |-> data, now |-> now]
        /\ UNCHANGED nextTid
        /\ MemUnchanged

AcctDelete ==
    \E account_id \in AccIds :
        /\ LET r == delete_account(DB, account_id)
           IN /\ Commit(r)
              /\ last' = [op |-> "delete_account", raised |-> r.raised,
                          account_id |-> account_id, ret |-> r.ret]
        /\ UNCHANGED nextTid
        /\ MemUnchanged

NextAccounts ==
    \/ AcctCreate
    \/ AcctUpdate
    \/ AcctDelete

SpecAccounts == Init /\ [][NextAccounts]_vars

\* the column a key of the update payload is written to
AccountColumn(account, k) ==
    CASE k = "name" -> account.name
      [] k = "type" -> account.type_id
      [] k = "institution" -> account.institution_id
      [] k = "balance" -> account.balance
      [] k = "currency" -> account.currency
      [] k = "is_active" -> account.is_active
      [] k = "notes" -> account.notes

\* C11: an account update that finds its account writes the payload's value
\* to the column of every key present in the payload and the clock's reading
\* to updated_at; the column of every absent key, id and created_at keep
\* their values, and every other account's row is unchanged.
C11_UpdateChangesExactlyPresentKeys ==
    [][(last'.op = "update_account" /\ last'.found) =>
          /\ Len(accounts') = Len(accounts)
          /\ \A i \in 1..Len(accounts) :
                IF accounts[i].id # last'.account_id
                THEN accounts'[i] = accounts[i]
                ELSE /\ accounts'[i].id = accounts[i].id
                     /\ accounts'[i].created_at = accounts[i].created_at
                     /\ accounts'[i].updated_at = last'.now
                     /\ \A k \in DOMAIN AcctPatchFull :
                           AccountColumn(accounts'[i], k) =
                               IF Has(last'.data, k)
                               THEN last'.data[k]
                               ELSE AccountColumn(accounts[i], k)]_vars

\* an update of acc-002 with every key but currency, beside acc-001
C11_Witness ==
    /\ last.op = "update_account"
    /\ Has(last, "data")
    /\ last.found
    /\ last.account_id = 2
    /\ DOMAIN last.data = DOMAIN AcctPatchFull \ {"currency"}
    /\ Len(accounts) = 2
    /\ accounts[2].name = "Savings"
    /\ accounts[2].currency = "EUR"
    /\ accounts[2].updated_at > accounts[2].created_at

----------------------------------------------------------------------------
(* Lookup specification: get, update and delete of AccountServiceDB and
   TransactionServiceDB, with ids that resolve and ids that do not *)

\* datetime.isoformat
isoformat(dt) == [d |-> dt \div 24, h |-> dt % 24]

\* AccountServiceDB._account_to_dict
account_to_dict(account) ==
    [id |-> account.id, name |-> account.name, type |-> account.type_id,
     institution |-> account.institution_id, balance |-> account.balance,
     currency |-> account.currency, is_active |-> account.is_active,
     notes |-> account.notes,
     created_at |-> isoformat(account.created_at),
     updated_at |-> isoformat(account.updated_at)]

\* TransactionServiceDB._transaction_to_dict; account is the row the
\* transaction's relationship loads, NULL when there is none
transaction_to_dict(transaction, account) ==
    [id |-> transaction.id, account_id |-> transaction.account_id,
     account_name |-> IF account # NULL THEN Some(account[1].name) ELSE NULL,
     date |-> isoformat(transaction.date), amount |-> transaction.amount,
     payee |-> transaction.payee, category |-> transaction.category,
     description |-> transaction.description,
     is_reconciled |-> transaction.is_reconciled]

\* AccountRepository.get_account_by_id
get_account_by_id(st, account_id) ==
    LET idx == AccountIndex(st.accounts, account_id)
    IN IF idx = {} THEN NULL
       ELSE Some(st.accounts[CHOOSE j \in idx : TRUE])

\* TransactionRepository.get_transaction_by_id
get_transaction_by_id(st, transaction_id) ==
    LET idx == TransactionIndex(st.transactions, transaction_id)
    IN IF idx = {} THEN NULL
       ELSE Some(st.transactions[CHOOSE j \in idx : TRUE])

\* AccountServiceDB.get_account_by_id
service_get_account_by_id(st, account_id) ==
    LET account == get_account_by_id(st, account_id)
    IN [st |-> st, raised |-> FALSE,
        ret |-> IF account # NULL THEN Some(account_to_dict(account[1]))
                ELSE NULL]

\* get_transaction_by_id of the service with the test for None lost
service_get_transaction_by_id_unchecked(st, transaction_id) ==
    LET transaction == get_transaction_by_id(st, transaction_id)
    IN IF transaction = NULL
       THEN [st |-> st, raised |-> TRUE, ret |-> NULL]
       ELSE [st |-> st, raised |-> FALSE,
             ret |-> Some(transaction_to_dict(
                         transaction[1],
                         get_account_by_id(st, transaction[1].account_id)))]

\* TransactionServiceDB.get_transaction_by_id
service_get_transaction_by_id(st, transaction_id) ==
    LET transaction == get_transaction_by_id(st, transaction_id)
    IN [st |-> st, raised |-> FALSE,
        ret |-> IF transaction # NULL
                THEN Some(transaction_to_dict(
                         transaction[1],
                         get_account_by_id(st, transaction[1].account_id)))
                ELSE NULL]

\* the call of the lookup specification: kind and name of the handler, the
\* id it was given, whether it raised and whether it returned None or False
LookupCall(kind, op, id, r, empty) ==
    [op |-> op, kind |-> kind, id |-> id, raised |-> r.raised,
     empty |-> r.ret = empty]

LookupGetAccount ==
    \E account_id \in AccIds :
        /\ LET r == service_get_account_by_id(DB, account_id)
           IN /\ Commit(r)
              /\ last' = LookupCall("account", "get", account_id, r, NULL)
        /\ UNCHANGED nextTid
        /\ MemUnchanged

LookupUpdateAccount ==
    \E account_id \in AccIds, data \in AccountPatches :
        /\ LET r == update_account(DB, account_id, data, LedgerNow)
           IN /\ Commit(r)
              /\ last' = LookupCall("account", "update", account_id, r, NULL)
        /\ UNCHANGED nextTid
        /\ MemUnchanged

LookupDeleteAccount ==
    \E account_id \in AccIds :
        /\ LET r == delete_account(DB, account_id)
           IN /\ Commit(r)
              /\ last' = LookupCall("account", "delete", account_id, r, FALSE)
        /\ UNCHANGED nextTid
        /\ MemUnchanged

LookupGetTransaction ==
    \E tid \in TidRange :
        /\ LET r == service_get_transaction_by_id(DB, tid)
           IN /\ Commit(r)
              /\ last' = LookupCall("transaction", "get", tid, r, NULL)
        /\ UNCHANGED nextTid
        /\ MemUnchanged

\* transaction_data of the updates of the lookup specification
LookupTxnPatches == {<<>>} \cup [amount : Amounts]

LookupUpdateTransaction ==
    \E tid \in TidRange, data \in LookupTxnPatches :
        /\ LET r == update_transaction(DB, tid, data)
           IN /\ Commit(r)
              /\ last' = LookupCall("transaction", "update", tid, r, NULL)
                             @@ [data |-> data]
        /\ UNCHANGED nextTid
        /\ MemUnchanged

LookupDeleteTransaction ==
    \E tid \in TidRange :
        /\ LET r == delete_transaction(DB, tid)
           IN /\ Commit(r)
              /\ last' = LookupCall("transaction", "delete", tid, r, FALSE)
        /\ UNCHANGED nextTid
        /\ MemUnchanged

NextLookup ==
    \/ CreateAccount
    \/ CreateTransaction
    \/ LookupGetAccount
    \/ LookupUpdateAccount
    \/ LookupDeleteAccount
    \/ LookupGetTransaction
    \/ LookupUpdateTransaction
    \/ LookupDeleteTransaction

SpecLookup == Init /\ [][NextLookup]_vars

\* the stored row with the id, as a set of at most one row
RowWithId(txns, tid) == {txns[i] : i \in TransactionIndex(txns, tid)}

\* C15: every transaction that create and update have written carries
\* is_income = (amount > 0); an update that supplies no amount leaves the
\* row's amount and is_income as they were.
C15_IsIncomeFollowsAmount ==
    [][/\ \A i \in 1..Len(transactions') :
             transactions'[i].is_income = (transactions'[i].amount > 0)
       /\ (Has(last', "data") /\ ~Has(last'.data, "amount")) =>
             \A old \in RowWithId(transactions, last'.id) :
                 \A new \in RowWithId(transactions', last'.id) :
                     /\ new.amount = old.amount
                     /\ new.is_income = old.is_income]_vars

\* an update has turned a stored expense into an income
C15_Witness ==
    /\ Has(last, "data")
    /\ Has(last.data, "amount")
    /\ last.data.amount > 0
    /\ \E new \in RowWithId(transactions, last.id) : new.is_income
    /\ \E i \in 1..Len(accounts) : accounts[i].balance < 0

\* the id of the call resolves to a stored entity of its kind
Resolves(accs, txns, call) ==
    IF call.kind = "account"
    THEN \E i \in 1..Len(accs) : accs[i].id = call.id
    ELSE \E i \in 1..Len(txns) : txns[i].id = call.id

\* C12: a get, update or delete of an account or a transaction whose id
\* resolves to nothing returns None (get, update) or False (delete), does
\* not raise, and leaves every stored account and transaction, balances
\* included, as it was.
C12_NotFoundReturnsEmptyAndChangesNothing ==
    [][(Has(last', "kind") /\ ~Resolves(accounts, transactions, last')) =>
          /\ ~last'.raised
          /\ last'.empty
          /\ accounts' = accounts
          /\ transactions' = transactions]_vars

\* a delete of an unknown transaction id while an account with a balance
\* and another transaction are stored
C12_Witness ==
    /\ Has(last, "kind")
    /\ last.kind = "transaction"
    /\ last.op = "delete"
    /\ ~Resolves(accounts, transactions, last)
    /\ last.empty
    /\ Len(transactions) = 1
    /\ \E i \in 1..Len(accounts) : accounts[i].balance # 0

----------------------------------------------------------------------------
(* Bank connections: BankConnectionRepository and BankConnectionService.
   A handler threads st (accounts, transactions) and bk (the bank tables). *)

ConnectionIndex(bk, connection_id) ==
    {i \in 1..Len(bk.connections) : bk.connections[i].id = connection_id}

\* the rows of bank_connection_accounts of a connection and an account
LinkIndex(bk, connection_id, account_id) ==
    {i \in 1..Len(bk.links) :
        /\ bk.links[i].bank_connection_id = connection_id
        /\ bk.links[i].account_id = account_id}

\* BankConnectionService.create_connection
bank_create_connection(bk, institution_id) ==
    LET new_connection ==
            [id |-> bk.ids + 1, institution_id |-> institution_id,
             status |-> "active", last_sync_at |-> NULL,
             error_message |-> NULL]
    IN [bk |-> [bk EXCEPT !.connections = Append(@, new_connection),
                          !.ids = @ + 1],
        raised |-> FALSE, ret |-> Some(new_connection)]

\* BankConnectionService.get_connection_by_id
bank_get_connection_by_id(bk, connection_id) ==
    LET idx == ConnectionIndex(bk, connection_id)
    IN [bk |-> bk, raised |-> FALSE,
        ret |-> IF idx = {} THEN NULL
                ELSE Some(bk.connections[CHOOSE i \in idx : TRUE])]

\* BankConnectionService.update_connection
bank_update_connection(bk, connection_id, connection_data) ==
    LET idx == ConnectionIndex(bk, connection_id)
    IN IF idx = {}
       THEN [bk |-> bk, raised |-> FALSE, ret |-> NULL]
       ELSE LET i == CHOOSE j \in idx : TRUE
                connection ==
                    [bk.connections[i] EXCEPT
                       !.status = Get(connection_data, "status", @),
                       !.error_message =
                           Get(connection_data, "error_message", @),
                       !.last_sync_at =
                           Get(connection_data, "last_sync_at", @)]
            IN [bk |-> [bk EXCEPT !.connections[i] = connection],
                raised |-> FALSE, ret |-> Some(connection)]

\* BankConnectionService.delete_connection, with the cascade of
\* BankConnection.connection_accounts
bank_delete_connection(bk, connection_id) ==
    LET idx == ConnectionIndex(bk, connection_id)
    IN IF idx = {}
       THEN [bk |-> bk, raised |-> FALSE, ret |-> FALSE]
       ELSE [bk |-> [bk EXCEPT
                       !.connections =
                           RemoveAt(@, CHOOSE i \in idx : TRUE),
                       !.links =
                           SelectSeq(@, LAMBDA l :
                               l.bank_connection_id # connection_id)],
             raised |-> FALSE, ret |-> TRUE]

\* account.updated_at = now of the link and unlink handlers
touch_account(st, account_id, now) ==
    [st EXCEPT !.accounts =
        [i \in 1..Len(@) |->
            IF @[i].id = account_id
            THEN [@[i] EXCEPT !.updated_at = now] ELSE @[i]]]

\* BankConnectionService.link_account_to_connection
bank_link_account_to_connection(st, bk, link_data, now) ==
    LET new_link ==
            [id |-> bk.ids + 1,
             bank_connection_id |-> link_data.bank_connection_id,
             account_id |-> link_data.account_id,
             external_account_id |-> link_data.external_account_id,
             last_sync_at |-> NULL]
    IN [st |-> touch_account(st, link_data.account_id, now),
        bk |-> [bk EXCEPT !.links = Append(@, new_link), !.ids = @ + 1],
        raised |-> FALSE, ret |-> Some(new_link)]

\* BankConnectionService.unlink_account_from_connection
bank_unlink_account_from_connection(st, bk, connection_id, account_id, now) ==
    LET idx == LinkIndex(bk, connection_id, account_id)
    IN IF idx = {}
       THEN [st |-> st, bk |-> bk, raised |-> FALSE, ret |-> FALSE]
       ELSE [st |-> touch_account(st, account_id, now),
             bk |-> [bk EXCEPT !.links =
                        RemoveAt(@, CHOOSE i \in idx :
                                        \A j \in idx : i <= j)],
             raised |-> FALSE, ret |-> TRUE]

ConnectionOrAccountNotFound ==
    <<"C", "o", "n", "n", "e", "c", "t", "i", "o", "n", " ", "o", "r", " ", "a", "c", "c", "o", "u", "n", "t", " ", "n", "o", "t", " ", "f", "o", "u", "n", "d">>

\* BankConnectionService.sync_account_transactions: when the connection
\* and the account exist it stamps the link, commits, and then calls
\* TransactionService(self.db), whose __init__ takes no argument: TypeError
bank_sync_account_transactions(st, bk, connection_id, account_id, now) ==
    IF ConnectionIndex(bk, connection_id) = {}
       \/ AccountIndex(st.accounts, account_id) = {}
    THEN [st |-> st, bk |-> bk, raised |-> FALSE,
          ret |-> [success |-> FALSE,
                   message |-> ConnectionOrAccountNotFound]]
    ELSE LET idx == LinkIndex(bk, connection_id, account_id)
             bk1 == IF idx = {} THEN bk
                    ELSE [bk EXCEPT
                            !.links[CHOOSE i \in idx :
                                        \A j \in idx : i <= j]
                                .last_sync_at = Some(now)]
         IN [st |-> st, bk |-> bk1, raised |-> TRUE, ret |-> <<>>]

----------------------------------------------------------------------------
(* The HTTP routes that address an entity by id.  A response is
   [st, bk, status, detail]; an exception that leaves a route other than
   HTTPException is answered with status 500. *)

DigitChar == <<"0", "1", "2", "3", "4", "5", "6", "7", "8", "9">>

DigitChars(digits) == [i \in 1..Len(digits) |-> DigitChar[digits[i] + 1]]

\* f"acc-{n:03d}"
AccountIdChars(n) ==
    <<"a", "c", "c", "-">> \o DigitChars(PadZeros(Decimal(n), 3))

\* the id of the n-th connection, written conn-<n>
ConnectionIdChars(n) == <<"c", "o", "n", "n", "-">> \o DigitChars(Decimal(n))

AccountNotFound == <<"A", "c", "c", "o", "u", "n", "t", " ", "n", "o", "t", " ", "f", "o", "u", "n", "d">>

TransactionNotFound ==
    <<"T", "r", "a", "n", "s", "a", "c", "t", "i", "o", "n", " ", "n", "o", "t", " ", "f", "o", "u", "n", "d">>

\* f"Bank connection with ID {connection_id} not found"
ConnectionNotFound(connection_id) ==
    <<"B", "a", "n", "k", " ", "c", "o", "n", "n", "e", "c", "t", "i", "o", "n", " ", "w", "i", "t", "h", " ", "I", "D", " ">>
    \o ConnectionIdChars(connection_id)
    \o <<" ", "n", "o", "t", " ", "f", "o", "u", "n", "d">>

\* f"Link between connection {connection_id} and account {account_id}
\* not found"
LinkNotFound(connection_id, account_id) ==
    <<"L", "i", "n", "k", " ", "b", "e", "t", "w", "e", "e", "n", " ", "c", "o", "n", "n", "e", "c", "t", "i", "o", "n", " ">>
    \o ConnectionIdChars(connection_id)
    \o <<" ", "a", "n", "d", " ", "a", "c", "c", "o", "u", "n", "t", " ">>
    \o AccountIdChars(account_id)
    \o <<" ", "n", "o", "t", " ", "f", "o", "u", "n", "d">>

\* {k: v for k, v in model.model_dump().items() if v is not None}
DropNone(payload) ==
    [k \in {x \in DOMAIN payload : payload[x] # NULL} |-> payload[k][1]]

Response(st, bk, status, detail) ==
    [st |-> st, bk |-> bk, status |-> status, detail |-> detail]

\* a route with one service call r on the account and transaction tables:
\* the result empty (None or False) is answered with 404, any other with ok
Route(r, bk, ok, empty, detail) ==
    IF r.raised THEN Response(r.st, bk, 500, <<>>)
    ELSE IF r.ret = empty
    THEN Response(r.st, bk, 404, detail)
    ELSE Response(r.st, bk, ok, <<>>)

\* the same for a service call on the bank tables
BankRoute(st, r, empty, detail) ==
    IF r.raised THEN Response(st, r.bk, 500, <<>>)
    ELSE IF r.ret = empty
    THEN Response(st, r.bk, 404, detail)
    ELSE Response(st, r.bk, 200, <<>>)

\* account_router_db
http_get_account(st, bk, account_id) ==
    Route(service_get_account_by_id(st, account_id), bk, 200,
          NULL, AccountNotFound)

http_update_account(st, bk, account_id, account_data, now) ==
    Route(update_account(st, account_id, DropNone(account_data), now),
          bk, 200, NULL, AccountNotFound)

http_delete_account(st, bk, account_id) ==
    Route(delete_account(st, account_id), bk, 204, FALSE, AccountNotFound)

\* transaction_router_db
http_get_transaction(st, bk, transaction_id) ==
    Route(service_get_transaction_by_id(st, transaction_id), bk, 200,
          NULL, TransactionNotFound)

http_update_transaction(st, bk, transaction_id, transaction_data) ==
    Route(update_transaction(st, transaction_id,
                             DropNone(transaction_data)),
          bk, 200, NULL, TransactionNotFound)

http_delete_transaction(st, bk, transaction_id) ==
    Route(delete_transaction(st, transaction_id), bk, 204,
          FALSE, TransactionNotFound)

\* bank_connection_router
http_get_bank_connection(st, bk, connection_id) ==
    BankRoute(st, bank_get_connection_by_id(bk, connection_id),
              NULL, ConnectionNotFound(connection_id))

http_update_bank_connection(st, bk, connection_id, connection_data) ==
    BankRoute(st, bank_update_connection(bk, connection_id,
                                         DropNone(connection_data)),
              NULL, ConnectionNotFound(connection_id))

http_delete_bank_connection(st, bk, connection_id) ==
    BankRoute(st, bank_delete_connection(bk, connection_id),
              FALSE, ConnectionNotFound(connection_id))

http_unlink_account_from_connection(st, bk, connection_id, account_id, now) ==
    LET r == bank_unlink_account_from_connection(st, bk, connection_id,
                                                 account_id, now)
    IN IF ~r.ret
       THEN Response(r.st, r.bk, 404,
                     LinkNotFound(connection_id, account_id))
       ELSE Response(r.st, r.bk, 200, <<>>)

http_sync_account_transactions(st, bk, connection_id, account_id, now) ==
    LET r == bank_sync_account_transactions(st, bk, connection_id,
                                            account_id, now)
    IN IF r.raised THEN Response(r.st, r.bk, 500, <<>>)
       ELSE IF ~Get(r.ret, "success", FALSE)
       THEN Response(r.st, r.bk, 400, r.ret.message)
       ELSE Response(r.st, r.bk, 200, <<>>)

----------------------------------------------------------------------------
(* HTTP specification: the routes over a database that requests fill.
   The bodies of the updates carry either nothing or the value the entity
   was created with. *)

AllNone(keys) == [k \in keys |-> NULL]

\* bodies of PUT /accounts/{id}: AccountUpdate
HttpAccountPayloads ==
    LET none == AllNone({"name", "type", "institution", "balance",
                         "currency", "notes", "is_active"})
    IN {none, [none EXCEPT !.name = Some("Checking")]}

\* bodies of PUT /transactions/{id}: TransactionUpdate
HttpTxnPayloads ==
    LET none == AllNone({"account_id", "date", "amount", "payee",
                         "category", "description", "is_reconciled"})
    IN {none, [none EXCEPT !.amount = Some(3)]}

\* bodies of PATCH /bank-connections/{id}: BankConnectionUpdate
HttpConnectionPayloads ==
    LET none == AllNone({"status", "error_message"})
    IN {none, [none EXCEPT !.status = Some("active")]}

HttpTxnData == [account_id : AccIds, amount : {3}, date : TxnDates]

ConnIds == 1..MaxBankIds

HttpTids == 1..MaxHttpTxns

\* the call of the HTTP specification: the route, whether the entity it
\* addresses was missing, and the response
HttpAnswer(op, missing, resp) ==
    /\ accounts' = resp.st.accounts
    /\ transactions' = resp.st.transactions
    /\ bank' = resp.bk
    /\ last' = [op |-> op, missing |-> missing, status |-> resp.status,
                detail |-> resp.detail]
    /\ UNCHANGED <<memTransactions, memNextTid, sessions, memAccounts,
                 migrations>>

AccountMissing(account_id) == AccountIndex(accounts, account_id) = {}

TransactionMissing(tid) == TransactionIndex(transactions, tid) = {}

ConnectionMissing(connection_id) ==
    ConnectionIndex(bank, connection_id) = {}

HttpCreateAccount == CreateAccountFrom([name : Names], AccIds)

HttpCreateTransaction ==
    \E data \in HttpTxnData :
        /\ nextTid < MaxHttpTxns
        /\ LET r == create_transaction(DB, data, nextTid + 1)
           IN HttpAnswer("create_transaction", FALSE,
                         Response(r.st, bank,
                                  IF r.raised THEN 500 ELSE 201, <<>>))
        /\ nextTid' = nextTid + 1

HttpCreateConnection ==
    /\ bank.ids < MaxBankIds
    /\ LET r == bank_create_connection(bank, "chase")
       IN HttpAnswer("create_bank_connection", FALSE,
                     Response(DB, r.bk, 200, <<>>))
    /\ UNCHANGED nextTid

HttpLinkAccount ==
    \E connection_id \in ConnIds, account_id \in AccIds :
        /\ bank.ids < MaxBankIds
        /\ LET r == bank_link_account_to_connection(
                        DB, bank,
                        [bank_connection_id |-> connection_id,
                         account_id |-> account_id,
                         external_account_id |-> "ext"], LedgerNow)
           IN HttpAnswer("link_account_to_connection", FALSE,
                         Response(r.st, r.bk, 200, <<>>))
        /\ UNCHANGED nextTid

HttpGetAccount ==
    \E account_id \in AccIds :
        /\ HttpAnswer("get_account", AccountMissing(account_id),
                      http_get_account(DB, bank, account_id))
        /\ UNCHANGED nextTid

HttpUpdateAccount ==
    \E account_id \in AccIds, body \in HttpAccountPayloads :
        /\ HttpAnswer("update_account", AccountMissing(account_id),
                      http_update_account(DB, bank, account_id, body,
                                          LedgerNow))
        /\ UNCHANGED nextTid

HttpDeleteAccount ==
    \E account_id \in AccIds :
        /\ HttpAnswer("delete_account", AccountMissing(account_id),
                      http_delete_account(DB, bank, account_id))
        /\ UNCHANGED nextTid

HttpGetTransaction ==
    \E tid \in HttpTids :
        /\ HttpAnswer("get_transaction", TransactionMissing(tid),
                      http_get_transaction(DB, bank, tid))
        /\ UNCHANGED nextTid

HttpUpdateTransaction ==
    \E tid \in HttpTids, body \in HttpTxnPayloads :
        /\ HttpAnswer("update_transaction", TransactionMissing(tid),
                      http_update_transaction(DB, bank, tid, body))
        /\ UNCHANGED nextTid

HttpDeleteTransaction ==
    \E tid \in HttpTids :
        /\ HttpAnswer("delete_transaction", TransactionMissing(tid),
                      http_delete_transaction(DB, bank, tid))
        /\ UNCHANGED nextTid

HttpGetBankConnection ==
    \E connection_id \in ConnIds :
        /\ HttpAnswer("get_bank_connection",
                      ConnectionMissing(connection_id),
                      http_get_bank_connection(DB, bank, connection_id))
        /\ UNCHANGED nextTid

HttpUpdateBankConnection ==
    \E connection_id \in ConnIds, body \in HttpConnectionPayloads :
        /\ HttpAnswer("update_bank_connection",
                      ConnectionMissing(connection_id),
                      http_update_bank_connection(DB, bank, connection_id,
                                                  body))
        /\ UNCHANGED nextTid

HttpDeleteBankConnection ==
    \E connection_id \in ConnIds :
        /\ HttpAnswer("delete_bank_connection",
                      ConnectionMissing(connection_id),
                      http_delete_bank_connection(DB, bank, connection_id))
        /\ UNCHANGED nextTid

HttpUnlinkAccount ==
    \E connection_id \in ConnIds, account_id \in AccIds :
        /\ HttpAnswer("unlink_account_from_connection",
                      LinkIndex(bank, connection_id, account_id) = {},
                      http_unlink_account_from_connection(
                          DB, bank, connection_id, account_id, LedgerNow))
        /\ UNCHANGED nextTid

HttpSyncAccount ==
    \E connection_id \in ConnIds, account_id \in AccIds :
        /\ HttpAnswer("sync_account_transactions",
                      ConnectionMissing(connection_id)
                          \/ AccountMissing(account_id),
                      http_sync_account_transactions(
                          DB, bank, connection_id, account_id, LedgerNow))
        /\ UNCHANGED nextTid

NextHttp ==
    \/ HttpCreateAccount
    \/ HttpCreateTransaction
    \/ HttpCreateConnection
    \/ HttpLinkAccount
    \/ HttpGetAccount
    \/ HttpUpdateAccount
    \/ HttpDeleteAccount
    \/ HttpGetTransaction
    \/ HttpUpdateTransaction
    \/ HttpDeleteTransaction
    \/ HttpGetBankConnection
    \/ HttpUpdateBankConnection
    \/ HttpDeleteBankConnection
    \/ HttpUnlinkAccount
    \/ HttpSyncAccount

SpecHttp == Init /\ [][NextHttp]_vars

NotFoundChars == <<"n", "o", "t", " ", "f", "o", "u", "n", "d">>

\* a 404 whose detail contains "not found", whatever the case of letters
IsNotFoundResponse(call) ==
    /\ call.status = 404
    /\ PyIn(Lower(NotFoundChars), Lower(call.detail))

\* C13: every route that addresses an entity by id answers 404 with a
\* detail containing "not found" when that entity does not exist.
C13_MissingEntityAnswers404 ==
    (Has(last, "missing") /\ last.missing) => IsNotFoundResponse(last)

\* the same for every route but the account sync
HttpMissingAnswers404ExceptSync ==
    (Has(last, "missing") /\ last.missing
        /\ last.op # "sync_account_transactions")
    => IsNotFoundResponse(last)

----------------------------------------------------------------------------
(* Id specification: account creates and deletes, with ids up to four
   digits *)

StoredIds == {accounts[i].id : i \in 1..Len(accounts)}

IdsCreate ==
    \E data \in [name : Names] :
        /\ Len(accounts) < MaxStoredAccounts
        /\ new_account_id(accounts) <= MaxAccountNumber
        /\ LET r == create_account(DB, data, LedgerNow)
           IN /\ Commit(r)
              /\ last' = [op |-> "create_account", raised |-> r.raised,
                          assigned |-> new_account_id(accounts),
                          fresh |-> new_account_id(accounts) \notin StoredIds]
        /\ UNCHANGED nextTid
        /\ MemUnchanged

\* the delete requests of this specification name the oldest account
IdsDelete ==
    /\ accounts # <<>>
    /\ DeleteAccountIn({accounts[1].id})

NextIds ==
    \/ IdsCreate
    \/ IdsDelete

SpecIds == Init /\ [][NextIds]_vars

\* C14: after any sequence of account creates and deletes, create assigns
\* an id that no stored account has, succeeds, and stores the account with
\* that id and is_active = true, the ids staying unique.
C14_CreateAssignsFreshId ==
    (last.op = "create_account" /\ Has(last, "assigned")) =>
        /\ last.fresh
        /\ ~last.raised
        /\ \E i \in 1..Len(accounts) :
              accounts[i].id = last.assigned /\ accounts[i].is_active
        /\ \A i, j \in 1..Len(accounts) :
              accounts[i].id = accounts[j].id => i = j


-----------------------------------------------------------------------------
\* Import specification: accounts are created and deleted and batches are
\* imported through the service; last records the batch and the dicts
\* returned.

\* one item of POST /transactions/import, with an account_id of its own
ImportItemData == [account_id : AccIds, amount : Amounts, date : TxnDates]

ImportBatches == UNION {[1..n -> ImportItemData] : n \in 1..MaxBatch}

\* the list comprehension that ends TransactionServiceDB.import_transactions
imported_to_dicts(st, imported) ==
    [k \in 1..Len(imported) |->
        transaction_to_dict(imported[k],
                            get_account_by_id(st, imported[k].account_id))]

ImportBatch ==
    \E account_id \in AccIds, items \in ImportBatches :
        /\ nextTid + Len(items) <= MaxTxns
        /\ LET r == service_import_transactions(DB, account_id, items,
                                                nextTid + 1)
           IN /\ Commit(r)
              /\ last' = [op |-> "import_batch", raised |-> r.raised,
                          account_id |-> account_id,
                          items |-> items,
                          ret |-> IF r.raised THEN <<>>
                                  ELSE imported_to_dicts(r.st, r.ret)]
              /\ nextTid' = nextTid + Len(r.st.transactions)
                                    - Len(transactions)
        /\ MemUnchanged

\* TransactionRepository.import_transactions called with items that name
\* their own accounts
RepositoryImport ==
    \E items \in ImportBatches :
        /\ nextTid + Len(items) <= MaxTxns
        /\ LET r == import_transactions(DB, items, nextTid + 1)
           IN /\ Commit(r)
              /\ last' = [op |-> "repository_import", raised |-> r.raised,
                          account_id |-> 0,
                          items |-> items,
                          ret |-> IF r.raised THEN <<>> ELSE r.ret]
              /\ nextTid' = nextTid + Len(r.st.transactions)
                                    - Len(transactions)
        /\ MemUnchanged

NextImport ==
    \/ CreateAccount
    \/ DeleteAccount
    \/ ImportBatch
    \/ RepositoryImport

SpecImport == Init /\ [][NextImport]_vars

\* the step has appended one row per item of the batch, each in the target
\* account and with the item's amount and date, and has returned the dicts
\* of these rows in the order of the items
ImportStoresBatch ==
    LET items == last'.items
        n == Len(transactions)
    IN /\ ~last'.raised
       /\ Len(transactions') = n + Len(items)
       /\ SubSeq(transactions', 1, n) = transactions
       /\ Len(last'.ret) = Len(items)
       /\ \A k \in 1..Len(items) :
            /\ n + k <= Len(transactions')
            /\ transactions'[n + k].account_id = last'.account_id
            /\ transactions'[n + k].amount = items[k].amount
            /\ transactions'[n + k].date = items[k].date
            /\ k <= Len(last'.ret)
            /\ last'.ret[k].id = transactions'[n + k].id
            /\ last'.ret[k].account_id = last'.account_id
            /\ last'.ret[k].amount = items[k].amount
            /\ last'.ret[k].date = isoformat(items[k].date)

\* C16: import_batch(account_id, items) stores one transaction per item,
\* each with account_id equal to the target account whatever account_id the
\* item carried, and returns them in the order of the items.
C16_ImportStoresOnePerItem ==
    [][last'.op = "import_batch" => ImportStoresBatch]_vars

\* the same for a target account that is stored
ImportIntoStoredAccountStoresOnePerItem ==
    [][(last'.op = "import_batch" /\ Exists(accounts, last'.account_id))
          => ImportStoresBatch]_vars

\* a batch of two items that name another account went into a stored account
ImportIntoStoredAccountReached ==
    /\ last.op = "import_batch" /\ ~last.raised
    /\ Len(last.items) = 2
    /\ \A k \in 1..2 : last.items[k].account_id # last.account_id
    /\ last.items[1].amount # last.items[2].amount


-----------------------------------------------------------------------------
(* Reports.  Amounts are counted in thousandths of the currency unit, so  *)
(* that round(x, 2) has something to round; a percentage is counted in    *)
(* hundredths of a percent, the unit round(percentage, 2) leaves.          *)

\* round(x, 2) of an amount in thousandths: the nearest hundredth, ties to
\* the even hundredth
round2(x) ==
    IF x < 0 THEN -RoundMagnitude(-x, 10) ELSE RoundMagnitude(x, 10)

\* round(amount / total * 100, 2), in hundredths of a percent
round2_percentage(amount, total) ==
    RoundQuotient((amount * 10000) \div total, (amount * 10000) % total,
                  total) \div total

\* the calendar of datetime(year, month, day): day 0 is 2024-01-01
EpochYear == 2024

IsLeap(year) == (year % 4 = 0 /\ year % 100 # 0) \/ year % 400 = 0

DaysInMonth(year, month) ==
    IF month = 2 THEN (IF IsLeap(year) THEN 29 ELSE 28)
    ELSE IF month \in {4, 6, 9, 11} THEN 30 ELSE 31

RECURSIVE DaysBeforeMonth(_, _)
DaysBeforeMonth(year, month) ==
    IF month = 1 THEN 0
    ELSE DaysBeforeMonth(year, month - 1) + DaysInMonth(year, month - 1)

RECURSIVE DaysBeforeYear(_)
DaysBeforeYear(year) ==
    IF year = EpochYear THEN 0
    ELSE DaysBeforeYear(year - 1) + (IF IsLeap(year - 1) THEN 366 ELSE 365)

\* datetime(year, month, day): midnight at the start of that day
calendar_datetime(year, month, day) ==
    datetime(DaysBeforeYear(year) + DaysBeforeMonth(year, month) + day - 1, 0)

\* timedelta(days=1)
OneDay == 24

Uncategorized ==
    <<"U", "n", "c", "a", "t", "e", "g", "o", "r", "i", "z", "e", "d">>

\* transaction.category or "Uncategorized"
category_or_uncategorized(category) ==
    IF category = <<>> THEN Uncategorized ELSE category

\* defaultdict(float) as the list of its items in insertion order:
\* totals[category] += amount
add_to_totals(totals, category, amount) ==
    IF \E i \in 1..Len(totals) : totals[i].category = category
    THEN [i \in 1..Len(totals) |->
            IF totals[i].category = category
            THEN [totals[i] EXCEPT !.amount = @ + amount]
            ELSE totals[i]]
    ELSE Append(totals, [category |-> category, amount |-> amount])

RECURSIVE SumAmounts(_)
SumAmounts(totals) ==
    IF totals = <<>> THEN 0
    ELSE Head(totals).amount + SumAmounts(Tail(totals))

\* the entries of a report: one per bucket, amount and percentage rounded
category_entries(totals, total) ==
    [i \in 1..Len(totals) |->
        [category |-> totals[i].category,
         amount |-> round2(totals[i].amount),
         percentage |-> IF total > 0
                        THEN round2_percentage(totals[i].amount, total)
                        ELSE 0]]

RECURSIVE sort_by_amount_desc(_)
\* list.sort(key=lambda x: x["amount"], reverse=True): stable, entries of
\* equal amount keep their order
sort_by_amount_desc(entries) ==
    IF entries = <<>> THEN <<>>
    ELSE LET first == CHOOSE i \in 1..Len(entries) :
                 /\ \A j \in 1..Len(entries) :
                        entries[j].amount <= entries[i].amount
                 /\ \A j \in 1..(i - 1) :
                        entries[j].amount < entries[i].amount
         IN <<entries[first]>>
            \o sort_by_amount_desc(SubSeq(entries, 1, first - 1)
                                   \o SubSeq(entries, first + 1,
                                             Len(entries)))

\* the filters both reports build; "if account_id:" leaves None out
report_filters(start_date, end_date, account_id) ==
    IF account_id # NULL
    THEN [start_date |-> start_date, end_date |-> end_date,
          account_id |-> account_id[1]]
    ELSE [start_date |-> start_date, end_date |-> end_date]


RECURSIVE spending_totals_unsigned(_, _)
\* the loop of get_spending_by_category without its test for expenses
spending_totals_unsigned(filtered, totals) ==
    IF filtered = <<>> THEN totals
    ELSE LET transaction == Head(filtered)
         IN spending_totals_unsigned(Tail(filtered),
                IF transaction.amount # 0
                THEN add_to_totals(totals,
                         category_or_uncategorized(transaction.category),
                         Abs(transaction.amount))
                ELSE totals)

RECURSIVE spending_totals(_, _)
\* the loop of get_spending_by_category over the filtered transactions
spending_totals(filtered, totals) ==
    IF filtered = <<>> THEN totals
    ELSE LET transaction == Head(filtered)
         IN spending_totals(Tail(filtered),
                IF transaction.amount < 0
                THEN add_to_totals(totals,
                         category_or_uncategorized(transaction.category),
                         Abs(transaction.amount))
                ELSE totals)

\* ReportsService.get_spending_by_category for dates that parse: the
\* possible results, one per order the filter may return the rows in
get_spending_by_category(txns, start_date, end_date, account_id) ==
    {LET category_totals == spending_totals(filtered, <<>>)
         total_spending == SumAmounts(category_totals)
     IN sort_by_amount_desc(category_entries(category_totals,
                                             total_spending)) :
        filtered \in filter_transactions(txns,
                         report_filters(start_date, end_date, account_id))}

NoTotals ==
    [income |-> 0, expenses |-> 0,
     income_by_category |-> <<>>, expenses_by_category |-> <<>>]

RECURSIVE monthly_totals_signed(_, _)
\* the loop of get_monthly_summary adding expenses with their sign
monthly_totals_signed(filtered, totals) ==
    IF filtered = <<>> THEN totals
    ELSE LET transaction == Head(filtered)
             category == category_or_uncategorized(transaction.category)
         IN monthly_totals_signed(Tail(filtered),
                IF transaction.amount > 0
                THEN [totals EXCEPT
                        !.income = @ + transaction.amount,
                        !.income_by_category =
                            add_to_totals(@, category, transaction.amount)]
                ELSE [totals EXCEPT
                        !.expenses = @ + transaction.amount,
                        !.expenses_by_category =
                            add_to_totals(@, category, transaction.amount)])

RECURSIVE monthly_totals(_, _)
\* the loop of get_monthly_summary over the filtered transactions
monthly_totals(filtered, totals) ==
    IF filtered = <<>> THEN totals
    ELSE LET transaction == Head(filtered)
             category == category_or_uncategorized(transaction.category)
         IN monthly_totals(Tail(filtered),
                IF transaction.amount > 0
                THEN [totals EXCEPT
                        !.income = @ + transaction.amount,
                        !.income_by_category =
                            add_to_totals(@, category, transaction.amount)]
                ELSE [totals EXCEPT
                        !.expenses = @ + Abs(transaction.amount),
                        !.expenses_by_category =
                            add_to_totals(@, category,
                                          Abs(transaction.amount))])

\* entries[:5]
first_five(entries) ==
    SubSeq(entries, 1, IF Len(entries) < 5 THEN Len(entries) ELSE 5)

\* the start_date and end_date get_monthly_summary filters by
month_start(year, month) == calendar_datetime(year, month, 1)

month_end(year, month) ==
    IF month = 12
    THEN calendar_datetime(year + 1, 1, 1) - OneDay
    ELSE calendar_datetime(year, month + 1, 1) - OneDay

\* ReportsService.get_monthly_summary for a month of 1..12: the possible
\* results, one per order the filter may return the rows in
get_monthly_summary(txns, year, month, account_id) ==
    {LET totals == monthly_totals(filtered, NoTotals)
         net_change == totals.income - totals.expenses
     IN [year |-> year, month |-> month,
         income |-> round2(totals.income),
         expenses |-> round2(totals.expenses),
         net_change |-> round2(net_change),
         top_income_categories |->
             first_five(sort_by_amount_desc(
                 category_entries(totals.income_by_category,
                                  totals.income))),
         top_expense_categories |->
             first_five(sort_by_amount_desc(
                 category_entries(totals.expenses_by_category,
                                  totals.expenses)))] :
        filtered \in filter_transactions(txns,
                         report_filters(isoformat(month_start(year, month)),
                                        isoformat(month_end(year, month)),
                                        account_id))}

-----------------------------------------------------------------------------
\* Report specification: the store holds some of the rows of ReportRows,
\* imported into two accounts; the two reports are called on it.

ReportRows ==
    << [account_id |-> 1, date |-> calendar_datetime(2024, 1, 1),
        amount |-> -60, category |-> <<"a">>],
       [account_id |-> 1, date |-> calendar_datetime(2024, 1, 5),
        amount |-> -20, category |-> <<"a">>],
       [account_id |-> 1, date |-> calendar_datetime(2024, 1, 10),
        amount |-> -50, category |-> <<"b">>],
       [account_id |-> 1, date |-> calendar_datetime(2024, 1, 10),
        amount |-> -44, category |-> <<"c">>],
       [account_id |-> 2, date |-> calendar_datetime(2024, 1, 20),
        amount |-> -30, category |-> <<"d">>],
       [account_id |-> 1, date |-> calendar_datetime(2024, 1, 31),
        amount |-> -20, category |-> <<"e">>],
       [account_id |-> 1, date |-> calendar_datetime(2024, 1, 31) + 12,
        amount |-> -10, category |-> <<"f">>],
       [account_id |-> 1, date |-> calendar_datetime(2024, 1, 15),
        amount |-> -4, category |-> <<>>],
       [account_id |-> 1, date |-> calendar_datetime(2024, 1, 12),
        amount |-> 30, category |-> <<"a">>],
       [account_id |-> 1, date |-> calendar_datetime(2024, 1, 12),
        amount |-> 14, category |-> <<"b">>],
       [account_id |-> 1, date |-> calendar_datetime(2024, 1, 13),
        amount |-> 0, category |-> <<"g">>],
       [account_id |-> 1, date |-> calendar_datetime(2024, 12, 31) + 12,
        amount |-> -10, category |-> <<"a">>],
       [account_id |-> 2, date |-> calendar_datetime(2024, 2, 1),
        amount |-> -30, category |-> <<"b">> ] >>

RECURSIVE RowsAt(_, _)
\* the rows of ReportRows at the positions of S, from position i on
RowsAt(S, i) ==
    IF i > Len(ReportRows) THEN <<>>
    ELSE (IF i \in S THEN <<ReportRows[i]>> ELSE <<>>) \o RowsAt(S, i + 1)

InitReports ==
    \E S \in SUBSET (1..Len(ReportRows)) :
        /\ Cardinality(S) <= MaxReportRows
        /\ LET r == import_transactions(TwoAccounts, RowsAt(S, 1), 1)
           IN /\ accounts = r.st.accounts
              /\ transactions = r.st.transactions
              /\ nextTid = Cardinality(S)
        /\ last = NoCall
        /\ memTransactions = <<>>
        /\ memNextTid = 0
        /\ bank = NoBank
        /\ sessions = NoSessions
        /\ memAccounts = NoMemAccounts
        /\ migrations = NoMigrations

\* start_date and end_date of a spending report, as ISO strings
SpendingRanges ==
    { [start_date |-> [d |-> 0], end_date |-> [d |-> 30]],
      [start_date |-> [d |-> 0, h |-> 0], end_date |-> [d |-> 30, h |-> 23]] }

ReportAccounts == {NULL, Some(1)}

ReportMonths == {[year |-> 2024, month |-> 1], [year |-> 2024, month |-> 12]}

SpendingByCategory ==
    \E range \in SpendingRanges, account_id \in ReportAccounts :
        \E result \in get_spending_by_category(transactions,
                          range.start_date, range.end_date, account_id) :
            /\ last' = [op |-> "spending_by_category",
                        start_date |-> range.start_date,
                        end_date |-> range.end_date,
                        account_id |-> account_id, ret |-> result]
            /\ UNCHANGED <<accounts, transactions, nextTid>>
            /\ MemUnchanged

MonthlySummary ==
    \E m \in ReportMonths, account_id \in ReportAccounts :
        \E result \in get_monthly_summary(transactions, m.year, m.month,
                                          account_id) :
            /\ last' = [op |-> "monthly_summary", year |-> m.year,
                        month |-> m.month, account_id |-> account_id,
                        ret |-> result]
            /\ UNCHANGED <<accounts, transactions, nextTid>>
            /\ MemUnchanged

NextReports ==
    \/ SpendingByCategory
    \/ MonthlySummary

SpecReports == InitReports /\ [][NextReports]_vars


-----------------------------------------------------------------------------
\* Properties of the reports

RECURSIVE AbsSum(_, _)
\* the sum of the absolute amounts of the rows of txns at the positions S
AbsSum(txns, S) ==
    IF S = {} THEN 0
    ELSE LET i == CHOOSE j \in S : TRUE
         IN Abs(txns[i].amount) + AbsSum(txns, S \ {i})

\* the category a report files a row under
ReportedCategory(t) == IF t.category = <<>> THEN Uncategorized ELSE t.category

\* v is x rounded to a multiple of unit (a tie may go either way)
Nearest(v, x, unit) == v % unit = 0 /\ 2 * Abs(v - x) <= unit

\* p hundredths of a percent is the share part / whole, rounded
NearestShare(p, part, whole) == 2 * Abs(p * whole - part * 10000) <= whole

\* the positions of the stored rows a report of the last call selects: in
\* the account when one is given
InAccount(call) ==
    {i \in 1..Len(transactions) :
        call.account_id # NULL
            => transactions[i].account_id = call.account_id[1]}

\* the expenses in the date range of the last call to spending_by_category
SpendingSelected ==
    {i \in InAccount(last) :
        /\ transactions[i].amount < 0
        /\ transactions[i].date >= fromisoformat(last.start_date)
        /\ transactions[i].date <= fromisoformat(last.end_date)}

InCategory(S, category) ==
    {i \in S : ReportedCategory(transactions[i]) = category}

SortedByAmountDesc(entries) ==
    \A i, j \in 1..Len(entries) :
        i < j => entries[i].amount >= entries[j].amount

\* C17 (as stated): spending_by_category returns one entry per category
\* with a negative-amount transaction in the date range and account, an
\* empty category as "Uncategorized"; an entry's amount is the sum of the
\* absolute values of those transactions, its percentage its share of the
\* total expense, and the entries are sorted by amount descending.
C17_SpendingByCategoryExact ==
    last.op = "spending_by_category" =>
        LET total == AbsSum(transactions, SpendingSelected)
        IN /\ Len(last.ret) = Cardinality(
                  {ReportedCategory(transactions[i]) : i \in SpendingSelected})
           /\ \A i \in SpendingSelected :
                \E k \in 1..Len(last.ret) :
                    last.ret[k].category = ReportedCategory(transactions[i])
           /\ \A k \in 1..Len(last.ret) :
                LET sum == AbsSum(transactions,
                               InCategory(SpendingSelected,
                                          last.ret[k].category))
                IN /\ InCategory(SpendingSelected, last.ret[k].category) # {}
                   /\ last.ret[k].amount = sum
                   /\ last.ret[k].percentage * total = sum * 10000
           /\ SortedByAmountDesc(last.ret)

\* C17 (amended): the same, the amount of an entry being the sum rounded to
\* two decimals and its percentage the share of the sum in the total,
\* rounded to two decimals; the order is that of the rounded amounts.
C17_SpendingByCategoryRounded ==
    last.op = "spending_by_category" =>
        LET total == AbsSum(transactions, SpendingSelected)
        IN /\ Len(last.ret) = Cardinality(
                  {ReportedCategory(transactions[i]) : i \in SpendingSelected})
           /\ \A i \in SpendingSelected :
                \E k \in 1..Len(last.ret) :
                    last.ret[k].category = ReportedCategory(transactions[i])
           /\ \A k \in 1..Len(last.ret) :
                LET sum == AbsSum(transactions,
                               InCategory(SpendingSelected,
                                          last.ret[k].category))
                IN /\ InCategory(SpendingSelected, last.ret[k].category) # {}
                   /\ Nearest(last.ret[k].amount, sum, 10)
                   /\ NearestShare(last.ret[k].percentage, sum, total)
           /\ SortedByAmountDesc(last.ret)

\* a report over a store with income, a zero amount and expenses inside and
\* in another account: two categories, one of two rows, one unnamed
C17_Witness ==
    /\ last.op = "spending_by_category"
    /\ last.account_id = Some(1)
    /\ Len(last.ret) = 2
    /\ last.ret[1] = [category |-> <<"a">>, amount |-> 80,
                      percentage |-> 9524]
    /\ last.ret[2] = [category |-> Uncategorized, amount |-> 0,
                      percentage |-> 476]
    /\ \E i \in 1..Len(transactions) : transactions[i].amount > 0
    /\ \E i \in 1..Len(transactions) : transactions[i].amount = 0
    /\ \E i \in 1..Len(transactions) : transactions[i].account_id = 2


\* the rows get_monthly_summary selects for the last call: in the account
\* when one is given, dated from start_date to end_date
MonthlySelected ==
    {i \in InAccount(last) :
        /\ transactions[i].date >= month_start(last.year, last.month)
        /\ transactions[i].date <= month_end(last.year, last.month)}

Positive(S) == {i \in S : transactions[i].amount > 0}

Negative(S) == {i \in S : transactions[i].amount < 0}

\* C18 (as stated): monthly_summary reports income as the sum of the
\* positive amounts, expenses as the sum of the absolute values of the
\* negative amounts and net_change as income minus expenses, over the
\* selected transactions of the month.
C18_MonthlyTotalsExact ==
    last.op = "monthly_summary" =>
        /\ last.ret.income = AbsSum(transactions, Positive(MonthlySelected))
        /\ last.ret.expenses = AbsSum(transactions, Negative(MonthlySelected))
        /\ last.ret.net_change = last.ret.income - last.ret.expenses

\* C18 (amended): income is the sum of the positive amounts, expenses the
\* sum of the absolute values of the negative amounts and net_change the
\* difference of the two sums, each rounded to two decimals on its own.
C18_MonthlyTotalsRounded ==
    last.op = "monthly_summary" =>
        LET income == AbsSum(transactions, Positive(MonthlySelected))
            expenses == AbsSum(transactions, Negative(MonthlySelected))
        IN /\ Nearest(last.ret.income, income, 10)
           /\ Nearest(last.ret.expenses, expenses, 10)
           /\ Nearest(last.ret.net_change, income - expenses, 10)

\* a month of account 1 with two incomes and two expenses, the net change
\* reported differing from the difference of the reported totals
C18_Witness ==
    /\ last.op = "monthly_summary"
    /\ last.account_id = Some(1)
    /\ Cardinality(Positive(MonthlySelected)) = 2
    /\ Cardinality(Negative(MonthlySelected)) = 2
    /\ last.ret.income = 40
    /\ last.ret.expenses = 50
    /\ last.ret.net_change = 0


\* midnight at the start of the month after the month of the last call
NextMonthStart ==
    IF last.month = 12
    THEN calendar_datetime(last.year + 1, 1, 1)
    ELSE calendar_datetime(last.year, last.month + 1, 1)

\* the rows dated in the calendar month of the last call, from the first
\* instant of day 1 through the last instant of the last day
CalendarMonth ==
    {i \in InAccount(last) :
        /\ transactions[i].date >= calendar_datetime(last.year, last.month, 1)
        /\ transactions[i].date < NextMonthStart}

\* the rows dated from the first instant of day 1 to midnight at the start
\* of the month's last day
UpToLastMidnight ==
    {i \in InAccount(last) :
        /\ transactions[i].date >= calendar_datetime(last.year, last.month, 1)
        /\ transactions[i].date <=
               calendar_datetime(last.year, last.month,
                                 DaysInMonth(last.year, last.month))}

\* the totals of the last monthly_summary are those of the rows at S
TotalsAreOver(S) ==
    /\ Nearest(last.ret.income, AbsSum(transactions, Positive(S)), 10)
    /\ Nearest(last.ret.expenses, AbsSum(transactions, Negative(S)), 10)

\* C19: monthly_summary(year, month) aggregates exactly the transactions
\* dated within the calendar month, from the first instant of day 1 through
\* the last instant of the month's last day, December included.
C19_MonthlyCoversCalendarMonth ==
    last.op = "monthly_summary" => TotalsAreOver(CalendarMonth)

\* what the summary does cover: the month up to the midnight that starts
\* its last day
MonthlyCoversUpToLastMidnight ==
    last.op = "monthly_summary" => TotalsAreOver(UpToLastMidnight)

\* a summary has been made of a month with a row on its last day after
\* midnight and a row on the first instant of its day 1
LastDayRowReached ==
    /\ last.op = "monthly_summary"
    /\ CalendarMonth \ UpToLastMidnight # {}
    /\ \E i \in CalendarMonth :
           transactions[i].date =
               calendar_datetime(last.year, last.month, 1)

\* entries is a top-5 list of the buckets of the rows at S: at most five
\* entries, sorted by amount descending, one per category, each the sum of
\* a category that has a row at S, and no bucket left out that is larger
\* than one listed
TopFiveOf(entries, S) ==
    LET categories == {ReportedCategory(transactions[i]) : i \in S}
        listed == {entries[k].category : k \in 1..Len(entries)}
    IN /\ Len(entries) <= 5
       /\ SortedByAmountDesc(entries)
       /\ Cardinality(listed) = Len(entries)
       /\ listed \subseteq categories
       /\ Len(entries) = 5 \/ listed = categories
       /\ \A k \in 1..Len(entries) :
            Nearest(entries[k].amount,
                    AbsSum(transactions,
                           InCategory(S, entries[k].category)), 10)
       /\ \A c \in categories \ listed : \A k \in 1..Len(entries) :
            2 * (AbsSum(transactions, InCategory(S, c))
                    - entries[k].amount) <= 10

\* C20: top_income_categories and top_expense_categories each hold at most
\* 5 entries, sorted by amount descending, the largest buckets of their
\* side; the income list holds only categories with a positive-amount
\* transaction, the expense list only categories with a negative-amount
\* transaction.
C20_TopCategoriesOfEachSide ==
    last.op = "monthly_summary" =>
        /\ TopFiveOf(last.ret.top_income_categories,
                     Positive(MonthlySelected))
        /\ TopFiveOf(last.ret.top_expense_categories,
                     Negative(MonthlySelected))

\* what the lists hold: the expense side takes every amount that is not
\* positive, a zero amount included
TopCategoriesWithZeroAsExpense ==
    last.op = "monthly_summary" =>
        /\ TopFiveOf(last.ret.top_income_categories,
                     Positive(MonthlySelected))
        /\ TopFiveOf(last.ret.top_expense_categories,
                     MonthlySelected \ Positive(MonthlySelected))

\* a summary of six expense categories has listed five of them
TopFiveTruncationReached ==
    /\ last.op = "monthly_summary"
    /\ Cardinality({ReportedCategory(transactions[i]) :
                        i \in Negative(MonthlySelected)}) = 6
    /\ Len(last.ret.top_expense_categories) = 5


-----------------------------------------------------------------------------
(* Requests step by step.  A request is one call of create_transaction,    *)
(* update_transaction or delete_transaction in a session of its own; each  *)
(* SQL statement or commit of the call is a step, and the steps of         *)
(* different sessions interleave.  A session is [pc, op, tid, data,        *)
(* account_id, loaded, sum]: its position, the call, the transaction id,   *)
(* the arguments, the account it reconciles, the balance the Account       *)
(* object was loaded with and the sum it read.                             *)

IdleSession ==
    [pc |-> "idle", op |-> "none", tid |-> 0, data |-> <<>>,
     account_id |-> 0, loaded |-> 0, sum |-> 0]

\* the Transaction object create_transaction builds
new_transaction_row(transaction_data, transaction_id) ==
    [id |-> transaction_id,
     account_id |-> transaction_data.account_id,
     date |-> transaction_data.date,
     amount |-> transaction_data.amount,
     description |-> Get(transaction_data, "description", <<>>),
     category |-> Get(transaction_data, "category", <<>>),
     is_income |-> Get(transaction_data, "amount", 0) > 0,
     payee |-> IF Has(transaction_data, "payee")
               THEN Some(transaction_data.payee) ELSE NULL,
     is_reconciled |-> Get(transaction_data, "is_reconciled", FALSE)]

\* the sum query of update_account_balance and the new_balance it gives
balance_query_sum(txns, account_id) ==
    LET transaction_sum ==
            SelectSeq(txns, LAMBDA t : t.account_id = account_id)
        amounts == [k \in 1..Len(transaction_sum) |->
                       transaction_sum[k].amount]
    IN IF transaction_sum # <<>> THEN PySum(amounts) ELSE 0

\* a commit of the balance that reads the sum again as it writes, under a
\* lock on the account
balance_commit_serialized(accs, txns, session) ==
    [i \in 1..Len(accs) |->
        IF accs[i].id = session.account_id
        THEN [accs[i] EXCEPT
                 !.balance = balance_query_sum(txns, session.account_id)]
        ELSE accs[i]]

\* account.balance = new_balance; self.db.commit(): the UPDATE the flush
\* emits when the value differs from the one the object was loaded with
balance_commit(accs, txns, session) ==
    [i \in 1..Len(accs) |->
        IF accs[i].id = session.account_id /\ session.sum # session.loaded
        THEN [accs[i] EXCEPT !.balance = session.sum]
        ELSE accs[i]]

\* the rows after the mutation of the session is flushed
mutated_rows(txns, session, transaction_id) ==
    IF session.op = "create"
    THEN Append(txns, new_transaction_row(session.data, transaction_id))
    ELSE IF session.op = "update"
    THEN [i \in 1..Len(txns) |->
            IF txns[i].id = session.tid
            THEN [txns[i] EXCEPT
                     !.amount = session.data.amount,
                     !.is_income = session.data.amount > 0]
            ELSE txns[i]]
    ELSE SelectSeq(txns, LAMBDA t : t.id # session.tid)

\* a flush that writes the balance in the commit of the mutation
mutation_commit_with_balance(accs, txns, session, transaction_id) ==
    [transactions |-> mutated_rows(txns, session, transaction_id),
     accounts |->
        LET account_id == IF session.op = "create"
                          THEN session.data.account_id
                          ELSE session.account_id
        IN [i \in 1..Len(accs) |->
              IF accs[i].id = account_id
              THEN [accs[i] EXCEPT !.balance =
                       balance_query_sum(
                           mutated_rows(txns, session, transaction_id),
                           account_id)]
              ELSE accs[i]]]

\* self.db.add / self.db.delete / the assignments, then self.db.commit():
\* the tables after the commit of the mutation
mutation_commit(accs, txns, session, transaction_id) ==
    [transactions |-> mutated_rows(txns, session, transaction_id),
     accounts |-> accs]


\* transaction_data of the requests: every create goes to account 1
StepTxnData == [account_id : {1}, amount : Amounts, date : TxnDates]

StepPatches == [amount : Amounts]

SessionIds == 1..MaxSessions

\* the positions between the commit of the mutation and the commit of the
\* balance
Reconciling == {"query_account", "query_sum", "commit_balance"}

InitSteps ==
    /\ accounts = TwoAccounts.accounts
    /\ transactions = <<>>
    /\ nextTid = 0
    /\ last = NoCall
    /\ memTransactions = <<>>
    /\ memNextTid = 0
    /\ bank = NoBank
    /\ sessions = [s \in SessionIds |-> IdleSession]
    /\ memAccounts = NoMemAccounts
    /\ migrations = NoMigrations

StepFrame ==
    UNCHANGED <<memTransactions, memNextTid, bank, memAccounts, migrations>>

\* the session moves to pc with the fields of its record changed to those
\* of changes; the step is noted in last
Advance(s, step, changes) ==
    /\ sessions' = [sessions EXCEPT ![s] =
                       [f \in DOMAIN sessions[s] |->
                           IF f \in DOMAIN changes THEN changes[f]
                           ELSE sessions[s][f]]]
    /\ last' = [op |-> step, session |-> s]

StartCreate(s) ==
    \E data \in StepTxnData :
        /\ sessions[s].pc = "idle"
        /\ nextTid + Cardinality({t \in SessionIds :
                                     /\ sessions[t].op = "create"
                                     /\ sessions[t].pc = "mutate"}) < MaxTxns
        /\ Advance(s, "start_create",
                   [pc |-> "mutate", op |-> "create", data |-> data])
        /\ UNCHANGED <<accounts, transactions, nextTid>>
        /\ StepFrame

StartUpdate(s) ==
    \E tid \in TidRange, data \in StepPatches :
        /\ sessions[s].pc = "idle"
        /\ Advance(s, "start_update",
                   [pc |-> "find", op |-> "update", tid |-> tid,
                    data |-> data])
        /\ UNCHANGED <<accounts, transactions, nextTid>>
        /\ StepFrame

StartDelete(s) ==
    \E tid \in TidRange :
        /\ sessions[s].pc = "idle"
        /\ Advance(s, "start_delete",
                   [pc |-> "find", op |-> "delete", tid |-> tid])
        /\ UNCHANGED <<accounts, transactions, nextTid>>
        /\ StepFrame

\* get_transaction_by_id at the head of update_transaction and
\* delete_transaction: None ends the call
StepFind(s) ==
    /\ sessions[s].pc = "find"
    /\ LET idx == TransactionIndex(transactions, sessions[s].tid)
       IN IF idx = {}
          THEN Advance(s, "find", [pc |-> "done"])
          ELSE Advance(s, "find",
                 [pc |-> "mutate",
                  account_id |->
                      transactions[CHOOSE i \in idx : TRUE].account_id])
    /\ UNCHANGED <<accounts, transactions, nextTid>>
    /\ StepFrame

\* the commit of the mutation; the UPDATE of a row that is gone matches no
\* row and the flush raises StaleDataError, the DELETE of one only warns
StepMutate(s) ==
    /\ sessions[s].pc = "mutate"
    /\ IF /\ sessions[s].op = "update"
          /\ TransactionIndex(transactions, sessions[s].tid) = {}
       THEN /\ Advance(s, "mutate", [pc |-> "raised"])
            /\ UNCHANGED <<accounts, transactions, nextTid>>
       ELSE LET c == mutation_commit(accounts, transactions, sessions[s],
                                     nextTid + 1)
            IN /\ transactions' = c.transactions
               /\ accounts' = c.accounts
               /\ IF sessions[s].op = "create"
                  THEN /\ nextTid' = nextTid + 1
                       /\ Advance(s, "mutate",
                            [pc |-> "query_account", tid |-> nextTid + 1,
                             account_id |-> sessions[s].data.account_id])
                  ELSE /\ nextTid' = nextTid
                       /\ Advance(s, "mutate", [pc |-> "query_account"])
    /\ StepFrame

\* update_account_balance: the query of the account, ValueError when
\* there is none
StepQueryAccount(s) ==
    /\ sessions[s].pc = "query_account"
    /\ LET idx == AccountIndex(accounts, sessions[s].account_id)
       IN IF idx = {}
          THEN Advance(s, "query_account", [pc |-> "raised"])
          ELSE Advance(s, "query_account",
                 [pc |-> "query_sum",
                  loaded |-> accounts[CHOOSE i \in idx : TRUE].balance])
    /\ UNCHANGED <<accounts, transactions, nextTid>>
    /\ StepFrame

\* update_account_balance: the query of the amounts and their sum
StepQuerySum(s) ==
    /\ sessions[s].pc = "query_sum"
    /\ Advance(s, "query_sum",
               [pc |-> "commit_balance",
                sum |-> balance_query_sum(transactions,
                                          sessions[s].account_id)])
    /\ UNCHANGED <<accounts, transactions, nextTid>>
    /\ StepFrame

\* update_account_balance: account.balance = new_balance and the commit
StepCommitBalance(s) ==
    /\ sessions[s].pc = "commit_balance"
    /\ accounts' = balance_commit(accounts, transactions, sessions[s])
    /\ Advance(s, "commit_balance", [pc |-> "done"])
    /\ UNCHANGED <<transactions, nextTid>>
    /\ StepFrame

\* the process serving the request dies between the two commits
StepCrash(s) ==
    /\ sessions[s].pc \in Reconciling
    /\ Advance(s, "crash", [pc |-> "crashed"])
    /\ UNCHANGED <<accounts, transactions, nextTid>>
    /\ StepFrame

NextSteps ==
    \E s \in SessionIds :
        \/ StartCreate(s)
        \/ StartUpdate(s)
        \/ StartDelete(s)
        \/ StepFind(s)
        \/ StepMutate(s)
        \/ StepQueryAccount(s)
        \/ StepQuerySum(s)
        \/ StepCommitBalance(s)
        \/ StepCrash(s)

SpecSteps == InitSteps /\ [][NextSteps]_vars


\* session s takes the step that leaves position pc
Leaves(s, pc) == sessions[s].pc = pc /\ sessions'[s].pc # pc

StoredBalance(accs, account_id) ==
    accs[CHOOSE i \in 1..Len(accs) : accs[i].id = account_id].balance

-----------------------------------------------------------------------------
(* The in-memory AccountService: a list of dicts that starts with five
   accounts, acc-001 .. acc-005 *)

seed_account(n, name, balance) ==
    [id |-> AccountIdChars(n), name |-> name, balance |-> balance,
     is_active |-> TRUE,
     created_at |-> isoformat(0), updated_at |-> isoformat(0)]

\* AccountService.__init__ (balances in cents)
seed_accounts ==
    <<seed_account(1, "Primary Checking", 250075),
      seed_account(2, "Emergency Savings", 1000000),
      seed_account(3, "Rewards Credit Card", -45025),
      seed_account(4, "Vacation Fund", 350000),
      seed_account(5, "Investment Portfolio", 4500000)>>

\* AccountService.get_account_by_id: the first account of the list with the
\* id, as its position in the list (0 for None)
mem_account_position(accs, account_id) ==
    IF \E i \in 1..Len(accs) : accs[i].id = account_id
    THEN CHOOSE i \in 1..Len(accs) :
            /\ accs[i].id = account_id
            /\ \A j \in 1..(i - 1) : accs[j].id # account_id
    ELSE 0

mem_get_account_by_id(accs, account_id) ==
    LET i == mem_account_position(accs, account_id)
    IN IF i = 0 THEN NULL ELSE Some(accs[i])

\* AccountService.add_account; the keys of account_data override the
\* generated ones, now is the reading of datetime.now()
mem_add_account(accs, account_data, now) ==
    LET new_account ==
            account_data @@
            [id |-> AccountIdChars(Len(accs) + 1),
             created_at |-> isoformat(now),
             updated_at |-> isoformat(now),
             is_active |-> TRUE]
    IN [accounts |-> Append(accs, new_account), ret |-> new_account]

\* AccountService.delete_account
mem_delete_account(accs, account_id) ==
    LET i == mem_account_position(accs, account_id)
    IN IF i = 0 THEN [accounts |-> accs, ret |-> FALSE]
       ELSE [accounts |-> RemoveAt(accs, i), ret |-> TRUE]

MemAccountData == [name : {"Travel"}, balance : {0}]

MemAccountNow == {datetime(1, 9), datetime(2, 9)}

MemAccountIds ==
    {AccountIdChars(n) : n \in 1..(Len(seed_accounts) + MaxAddedAccounts)}

\* the accounts of the list that were added after construction
added_accounts(accs) ==
    SelectSeq(accs, LAMBDA a : \A i \in 1..Len(seed_accounts) :
                                  a # seed_accounts[i])

InitMemAccounts ==
    /\ accounts = <<>>
    /\ transactions = <<>>
    /\ nextTid = 0
    /\ last = NoCall
    /\ memTransactions = <<>>
    /\ memNextTid = 0
    /\ bank = NoBank
    /\ sessions = NoSessions
    /\ memAccounts = seed_accounts
    /\ migrations = NoMigrations

MemAccountsFrame ==
    UNCHANGED <<accounts, transactions, nextTid, memTransactions, memNextTid,
                bank, sessions, migrations>>

MemAddAccount ==
    \E account_data \in MemAccountData, now \in MemAccountNow :
        /\ Len(added_accounts(memAccounts)) < MaxAddedAccounts
        /\ LET r == mem_add_account(memAccounts, account_data, now)
           IN /\ memAccounts' = r.accounts
              /\ last' = [op |-> "add_account", ret |-> r.ret]
        /\ MemAccountsFrame

MemDeleteAccount ==
    \E account_id \in MemAccountIds :
        /\ LET r == mem_delete_account(memAccounts, account_id)
           IN /\ memAccounts' = r.accounts
              /\ last' = [op |-> "delete_account", ret |-> r.ret,
                          account_id |-> account_id]
        /\ MemAccountsFrame

NextMemAccounts ==
    \/ MemAddAccount
    \/ MemDeleteAccount

SpecMemAccounts == InitMemAccounts /\ [][NextMemAccounts]_vars

\* C26: add_account gives the new account an id that no account of the
\* store has, so that get_account_by_id of the returned id finds the
\* account just added (the last of the list).
C26_AddAccountIdIsFresh ==
    [][last'.op = "add_account"
        => /\ \A i \in 1..Len(memAccounts) : memAccounts[i].id # last'.ret.id
           /\ mem_account_position(memAccounts', last'.ret.id)
                = Len(memAccounts')
           /\ mem_get_account_by_id(memAccounts', last'.ret.id)
                = Some(last'.ret)]_vars

\* the same while no account has been deleted
NothingDeleted ==
    \A i \in 1..Len(memAccounts) : memAccounts[i].id = AccountIdChars(i)

AddAccountIdIsFreshWhileNothingDeleted ==
    [][(last'.op = "add_account" /\ NothingDeleted)
        => /\ \A i \in 1..Len(memAccounts) : memAccounts[i].id # last'.ret.id
           /\ mem_get_account_by_id(memAccounts', last'.ret.id)
                = Some(last'.ret)]_vars

-----------------------------------------------------------------------------
(* GET /export/report.  The body of the route runs inside try: and its
   except Exception clause answers every exception with status 500; an
   exception is the record [type, status, detail] *)

\* str.lower on the format strings a request is sent with
lower(format) ==
    CASE format = "JSON" -> "json"
      [] format = "CSV" -> "csv"
      [] OTHER -> format

\* Response(content=..., media_type=..., headers={...}) of the route
export_response(media_type, content, filename) ==
    [raised |-> FALSE, status |-> 200, media_type |-> media_type,
     content |-> content, filename |-> filename]

\* raise HTTPException(status_code=..., detail=...)
raise_http_exception(status_code, detail) ==
    [raised |-> TRUE,
     exc |-> [type |-> "HTTPException", status |-> status_code,
              detail |-> detail]]

\* ReportsService.get_net_worth_history for a start and an end on the same
\* day: one data point, of today's net worth
get_net_worth_history(accs, start_date, end_date) ==
    <<[date |-> isoformat(datetime(start_date.d, 0)),
       net_worth |-> round2(get_net_worth(accs))]>>

\* csv.writer rows of a list of dicts, in the order of the keys written
csv_rows(header, data, cells(_)) ==
    <<header>> \o [i \in 1..Len(data) |-> cells(data[i])]

category_row(item) == <<item.category, item.amount, item.percentage>>

\* the sections of the monthly CSV
monthly_csv(data) ==
    <<<<"Monthly Summary">>,
      <<"Year", "Month", "Income", "Expenses", "Net Change">>,
      <<data.year, data.month, data.income, data.expenses, data.net_change>>,
      <<>>,
      <<"Top Income Categories">>>>
    \o csv_rows(<<"Category", "Amount", "Percentage">>,
                data.top_income_categories, category_row)
    \o <<<<>>, <<"Top Expense Categories">>>>
    \o csv_rows(<<"Category", "Amount", "Percentage">>,
                data.top_expense_categories, category_row)

\* the body of the try: of export_report, for requests that carry the
\* dates or the month the report needs; the set of its possible outcomes
export_report_body(accs, txns, format, report_type, range, m, account_id) ==
    LET filename == <<report_type, "_report_">>
    IN IF report_type = "net-worth"
       THEN LET data == get_net_worth_history(accs, range.start_date,
                                              range.end_date)
            IN IF lower(format) = "json"
               THEN {export_response("application/json", data,
                                     filename \o <<".json">>)}
               ELSE {export_response(
                        "text/csv",
                        csv_rows(<<"date", "net_worth">>, data,
                                 LAMBDA item : <<item.date, item.net_worth>>),
                        filename \o <<".csv">>)}
       ELSE IF report_type = "spending"
       THEN {IF lower(format) = "json"
             THEN export_response("application/json", data,
                                  filename \o <<".json">>)
             ELSE export_response(
                      "text/csv",
                      csv_rows(<<"category", "amount", "percentage">>, data,
                               category_row),
                      filename \o <<".csv">>) :
                data \in get_spending_by_category(txns, range.start_date,
                                                  range.end_date, account_id)}
       ELSE IF report_type = "monthly"
       THEN {IF lower(format) = "csv"
             THEN export_response("text/csv", monthly_csv(data),
                                  filename \o <<".csv">>)
             ELSE export_response("application/json", data,
                                  filename \o <<".json">>) :
                data \in get_monthly_summary(txns, m.year, m.month,
                                             account_id)}
       ELSE {raise_http_exception(
                400, <<"Invalid report type: ", report_type>>)}

\* str(e) of an HTTPException: "<status>: <detail>" where the installed
\* Starlette defines __str__, the empty string where it does not
str_exception(exc) ==
    {<<exc.status, ": ">> \o exc.detail, <<>>}

\* export_report with the handler that lets HTTPException through
export_report_reraising(accs, txns, format, report_type, range, m, account_id) ==
    UNION {IF r.raised
           THEN {[status |-> r.exc.status, detail |-> r.exc.detail,
                  media_type |-> "application/json", content |-> <<>>]}
           ELSE {[status |-> r.status, detail |-> <<>>,
                  media_type |-> r.media_type, content |-> r.content]} :
        r \in export_report_body(accs, txns, format, report_type, range, m,
                                 account_id)}

\* export_report: the answers the client can get
export_report(accs, txns, format, report_type, range, m, account_id) ==
    UNION {IF r.raised
           THEN {[status |-> 500,
                  detail |-> <<"Error exporting report: ">> \o text,
                  media_type |-> "application/json", content |-> <<>>] :
                    text \in str_exception(r.exc)}
           ELSE {[status |-> r.status, detail |-> <<>>,
                  media_type |-> r.media_type, content |-> r.content]} :
        r \in export_report_body(accs, txns, format, report_type, range, m,
                                 account_id)}

ReportTypes == {"net-worth", "spending", "monthly", "balance", "networth"}

ValidReportTypes == {"net-worth", "spending", "monthly"}

ExportFormats == {"csv", "json", "JSON", "xml"}

ExportRanges ==
    {[start_date |-> [d |-> 30], end_date |-> [d |-> 30, h |-> 23]]}

ExportReport ==
    \E format \in ExportFormats, report_type \in ReportTypes,
       range \in ExportRanges, m \in ReportMonths,
       account_id \in ReportAccounts :
        \E answer \in export_report(accounts, transactions, format,
                                    report_type, range, m, account_id) :
            /\ last' = [op |-> "export_report", format |-> format,
                        report_type |-> report_type, answer |-> answer]
            /\ UNCHANGED <<accounts, transactions, nextTid>>
            /\ MemUnchanged

\* a store of up to MaxExportRows of the rows of ReportRows
InitExport ==
    \E S \in SUBSET (1..Len(ReportRows)) :
        /\ Cardinality(S) <= MaxExportRows
        /\ LET r == import_transactions(TwoAccounts, RowsAt(S, 1), 1)
           IN /\ accounts = r.st.accounts
              /\ transactions = r.st.transactions
              /\ nextTid = Cardinality(S)
        /\ last = NoCall
        /\ memTransactions = <<>>
        /\ memNextTid = 0
        /\ bank = NoBank
        /\ sessions = NoSessions
        /\ memAccounts = NoMemAccounts
        /\ migrations = NoMigrations

NextExport == ExportReport

SpecExport == InitExport /\ [][NextExport]_vars

\* C27: the export answers a report_type other than net-worth, spending
\* and monthly with status 400 and the detail "Invalid report type: <type>";
\* status 500 is kept for unexpected errors.
C27_InvalidReportTypeAnswered400 ==
    (last.op = "export_report" /\ last.report_type \notin ValidReportTypes)
        => /\ last.answer.status = 400
           /\ last.answer.detail = <<"Invalid report type: ", last.report_type>>

\* what holds instead: a report_type of the three is answered with 200
ValidReportTypeAnswered200 ==
    (last.op = "export_report" /\ last.report_type \in ValidReportTypes)
        => last.answer.status = 200

\* and any other report_type with 500
InvalidReportTypeAnswered500 ==
    (last.op = "export_report" /\ last.report_type \notin ValidReportTypes)
        => last.answer.status = 500

-----------------------------------------------------------------------------
(* MigrationManager.  A file of the migrations directory is the record
   [digits, stem, suffix] of the parts of its name; the state is the
   directory, the rows of the migrations table in the order of their id,
   and the log of the scripts handed to _execute_script *)

RECURSIVE int_of_digits(_)
\* int() of a string of digits
int_of_digits(digits) ==
    IF digits = <<>> THEN 0
    ELSE 10 * int_of_digits(SubSeq(digits, 1, Len(digits) - 1))
            + digits[Len(digits)]

\* the name of the file
script_name(file) == DigitChars(file.digits) \o <<"_", file.stem, file.suffix>>

\* file.endswith(".sql") and not file.endswith("_rollback.sql") and
\* re.match(r"^(\d+)_(.+)\.sql$", file)
is_migration_script(file) ==
    /\ file.suffix = ".sql"
    /\ file.digits # <<>>

RECURSIVE sorted_by_sequence(_)
\* the orders sort(key=seq_num) can leave the files of a listing in: the
\* sort is stable and os.listdir returns the files in arbitrary order
sorted_by_sequence(files) ==
    IF files = {} THEN {<<>>}
    ELSE UNION {
        {<<f>> \o rest : rest \in sorted_by_sequence(files \ {f})} :
        f \in {g \in files :
                 \A h \in files :
                    int_of_digits(g.digits) <= int_of_digits(h.digits)}}

\* MigrationManager._get_migration_scripts
get_migration_scripts(dir) ==
    sorted_by_sequence({file \in dir : is_migration_script(file)})

RECURSIVE apply_loop_continuing(_, _, _, _, _)
\* the loop of apply_migrations going on to the next script after a failure
apply_loop_continuing(m, applied, scripts, failing, killed_at) ==
    IF scripts = <<>> THEN [m |-> m, raised |-> FALSE, killed |-> FALSE]
    ELSE LET file == Head(scripts)
             event(outcome) == [run |-> m.runs, file |-> file,
                                outcome |-> outcome]
         IN IF \E i \in 1..Len(applied) : applied[i] = script_name(file)
            THEN apply_loop_continuing(m, applied, Tail(scripts), failing,
                                       killed_at)
            ELSE IF file \in failing
            THEN apply_loop_continuing(
                     [m EXCEPT !.log = Append(@, event("failed"))],
                     applied, Tail(scripts), failing, killed_at)
            ELSE IF killed_at = Some(file)
            THEN [m |-> [m EXCEPT !.log = Append(@, event("executed"))],
                  raised |-> FALSE, killed |-> TRUE]
            ELSE apply_loop_continuing(
                     [m EXCEPT !.log = Append(@, event("executed")),
                               !.table = Append(@, script_name(file))],
                     applied, Tail(scripts), failing, killed_at)

RECURSIVE apply_loop(_, _, _, _, _)
\* the loop of apply_migrations over the sorted scripts; applied is the
\* list read before the loop, failing the scripts whose execution raises,
\* killed_at the script after whose execution the process is killed
apply_loop(m, applied, scripts, failing, killed_at) ==
    IF scripts = <<>> THEN [m |-> m, raised |-> FALSE, killed |-> FALSE]
    ELSE LET file == Head(scripts)
             event(outcome) == [run |-> m.runs, file |-> file,
                                outcome |-> outcome]
         IN IF \E i \in 1..Len(applied) : applied[i] = script_name(file)
            THEN apply_loop(m, applied, Tail(scripts), failing, killed_at)
            ELSE IF file \in failing
            THEN [m |-> [m EXCEPT !.log = Append(@, event("failed"))],
                  raised |-> TRUE, killed |-> FALSE]
            ELSE IF killed_at = Some(file)
            THEN [m |-> [m EXCEPT !.log = Append(@, event("executed"))],
                  raised |-> FALSE, killed |-> TRUE]
            ELSE apply_loop(
                     [m EXCEPT !.log = Append(@, event("executed")),
                               !.table = Append(@, script_name(file))],
                     applied, Tail(scripts), failing, killed_at)

\* MigrationManager.apply_migrations: the possible outcomes of one run
apply_migrations(m, failing, killed_at) ==
    {apply_loop([m EXCEPT !.runs = @ + 1], m.table, scripts, failing,
                killed_at) :
        scripts \in get_migration_scripts(m.dir)}

MigrationFiles ==
    {[digits |-> <<0, 0, 2>>, stem |-> "seed_types", suffix |-> ".sql"],
     [digits |-> <<2>>, stem |-> "accounts", suffix |-> ".sql"],
     [digits |-> <<1, 0>>, stem |-> "index", suffix |-> ".sql"]}

OtherFiles ==
    {[digits |-> <<0, 0, 2>>, stem |-> "seed_types", suffix |-> "_rollback.sql"],
     [digits |-> <<>>, stem |-> "notes", suffix |-> ".sql"]}

\* a database whose migrations table was just created, next to a directory
\* that holds no migration script yet
InitMigrations ==
    /\ accounts = <<>>
    /\ transactions = <<>>
    /\ nextTid = 0
    /\ last = NoCall
    /\ memTransactions = <<>>
    /\ memNextTid = 0
    /\ bank = NoBank
    /\ sessions = NoSessions
    /\ memAccounts = NoMemAccounts
    /\ migrations = [dir |-> OtherFiles, table |-> <<>>, log |-> <<>>,
                     runs |-> 0]

MigrationsFrame ==
    UNCHANGED <<accounts, transactions, nextTid, memTransactions, memNextTid,
                bank, sessions, memAccounts>>

\* a migration script is put into the directory
AddScript ==
    \E file \in MigrationFiles \ migrations.dir :
        /\ migrations' = [migrations EXCEPT !.dir = @ \cup {file}]
        /\ last' = [op |-> "add_script", file |-> file]
        /\ MigrationsFrame

ApplyMigrations ==
    \E failing \in SUBSET (MigrationFiles \cap migrations.dir),
       killed_at \in {NULL} \cup {Some(f) : f \in MigrationFiles \cap migrations.dir} :
        \E r \in apply_migrations(migrations, failing, killed_at) :
            /\ migrations.runs < MaxRuns
            /\ migrations' = r.m
            /\ last' = [op |-> "apply_migrations", raised |-> r.raised,
                        killed |-> r.killed]
            /\ MigrationsFrame

NextMigrations ==
    \/ AddScript
    \/ ApplyMigrations

SpecMigrations == InitMigrations /\ [][NextMigrations]_vars

\* the events the step has added to the log, and the rows to the table
NewEvents == SubSeq(migrations'.log, Len(migrations.log) + 1,
                    Len(migrations'.log))

NewRows == SubSeq(migrations'.table, Len(migrations.table) + 1,
                  Len(migrations'.table))

Recorded(m, file) == \E i \in 1..Len(m.table) : m.table[i] = script_name(file)

\* C29: in every run of apply_migrations the scripts recorded are the
\* scripts the run executed without an error, a script recorded before the
\* run is not executed, the scripts are executed in ascending sequence
\* number, and a script that fails ends the run: it is the last one
\* executed and it is not recorded.
C29_ApplyMigrationsRun ==
    [][last'.op = "apply_migrations"
        => /\ SubSeq(migrations'.table, 1, Len(migrations.table))
                = migrations.table
           /\ SubSeq(migrations'.log, 1, Len(migrations.log)) = migrations.log
           /\ \A i \in 1..Len(NewRows) :
                /\ i <= Len(NewEvents)
                /\ NewEvents[i].outcome = "executed"
                /\ NewRows[i] = script_name(NewEvents[i].file)
           /\ \A i \in 1..Len(NewEvents) :
                /\ ~Recorded(migrations, NewEvents[i].file)
                /\ NewEvents[i].file \in migrations.dir
                /\ is_migration_script(NewEvents[i].file)
                /\ \A j \in 1..(i - 1) :
                     /\ NewEvents[j].file # NewEvents[i].file
                     /\ int_of_digits(NewEvents[j].file.digits)
                          <= int_of_digits(NewEvents[i].file.digits)
                /\ NewEvents[i].outcome = "failed"
                     => /\ i = Len(NewEvents)
                        /\ last'.raised
                        /\ ~Recorded(migrations', NewEvents[i].file)]_vars

\* over all runs: every row of the table names a script that an earlier
\* entry of the log shows as executed, and no script is recorded twice
RecordedScriptsWereExecuted ==
    /\ \A i \in 1..Len(migrations.table) :
          \E k \in 1..Len(migrations.log) :
              /\ migrations.log[k].outcome = "executed"
              /\ script_name(migrations.log[k].file) = migrations.table[i]
    /\ \A i, j \in 1..Len(migrations.table) :
          migrations.table[i] = migrations.table[j] => i = j

\* the second run executed a script, stopped at the failure of the next
\* one, and two scripts are recorded
C29_Witness ==
    /\ last.op = "apply_migrations" /\ last.raised
    /\ migrations.runs = 2
    /\ Len(migrations.table) >= 2
    /\ \E k \in 1..Len(migrations.log) :
          /\ migrations.log[k].outcome = "failed"
          /\ migrations.log[k].run = 2
          /\ \E j \in 1..(k - 1) :
               /\ migrations.log[j].run = 2
               /\ migrations.log[j].outcome = "executed"
    /\ \E k \in 1..Len(migrations.log) : migrations.log[k].run = 1

-----------------------------------------------------------------------------
(* Links between bank connections and accounts: link and unlink called on
   a store of two accounts and one connection *)

\* BankConnectionRepository.get_connection_accounts
bank_get_connection_accounts(bk, connection_id) ==
    SelectSeq(bk.links, LAMBDA link : link.bank_connection_id = connection_id)

InitLinks ==
    /\ accounts = TwoAccounts.accounts
    /\ transactions = <<>>
    /\ nextTid = 0
    /\ last = NoCall
    /\ memTransactions = <<>>
    /\ memNextTid = 0
    /\ bank = bank_create_connection(NoBank, "chase").bk
    /\ sessions = NoSessions
    /\ memAccounts = NoMemAccounts
    /\ migrations = NoMigrations

LinksFrame ==
    UNCHANGED <<transactions, nextTid, memTransactions, memNextTid, sessions,
                memAccounts, migrations>>

LinkAccount ==
    \E connection_id \in ConnIds, account_id \in AccIds :
        /\ bank.ids < MaxLinkIds
        /\ LET r == bank_link_account_to_connection(
                        DB, bank,
                        [bank_connection_id |-> connection_id,
                         account_id |-> account_id,
                         external_account_id |-> "ext"], LedgerNow)
           IN /\ accounts' = r.st.accounts
              /\ bank' = r.bk
              /\ last' = [op |-> "link_account_to_connection",
                          connection_id |-> connection_id,
                          account_id |-> account_id, ret |-> r.ret]
        /\ LinksFrame

UnlinkAccount ==
    \E connection_id \in ConnIds, account_id \in AccIds :
        /\ LET r == bank_unlink_account_from_connection(
                        DB, bank, connection_id, account_id, LedgerNow)
           IN /\ accounts' = r.st.accounts
              /\ bank' = r.bk
              /\ last' = [op |-> "unlink_account_from_connection",
                          connection_id |-> connection_id,
                          account_id |-> account_id, ret |-> r.ret]
        /\ LinksFrame

NextLinks ==
    \/ LinkAccount
    \/ UnlinkAccount

SpecLinks == InitLinks /\ [][NextLinks]_vars

LinkedTo(bk, connection_id, account_id) ==
    LET links == bank_get_connection_accounts(bk, connection_id)
    IN \E i \in 1..Len(links) : links[i].account_id = account_id

\* C30: after unlink_account_from_connection(connection, account) returned
\* True, get_connection_accounts of the connection holds no link to the
\* account, whatever links and unlinks came before.
C30_UnlinkedAccountIsNotLinked ==
    (last.op = "unlink_account_from_connection" /\ last.ret = TRUE)
        => ~LinkedTo(bank, last.connection_id, last.account_id)

\* what holds instead: an unlink that returned True removed one link of
\* the pair and left every other link, and False means there was none
UnlinkRemovesOneLink ==
    [][last'.op = "unlink_account_from_connection"
        => LET idx == LinkIndex(bank, last'.connection_id, last'.account_id)
           IN /\ last'.ret = (idx # {})
              /\ idx = {} => bank' = bank
              /\ idx # {} =>
                    \E i \in idx : bank'.links = RemoveAt(bank.links, i)]_vars

\* the first item of the batch whose creation fails: the first that names
\* an account that is not stored (0 when every item can be created)
FirstFailingItem(accs, items) ==
    IF \A k \in 1..Len(items) : Exists(accs, items[k].account_id)
    THEN 0
    ELSE CHOOSE k \in 1..Len(items) :
            /\ ~Exists(accs, items[k].account_id)
            /\ \A j \in 1..(k - 1) : Exists(accs, items[j].account_id)

\* C24: the import is not atomic.  When creating item k of the batch fails,
\* the import ends with the error, no later item is created, and the
\* transactions created for items 1..k-1 are stored as they were created,
\* each counted in the balance of its account.
C24_ImportKeepsItemsBeforeFailure ==
    [][last'.op = "repository_import"
        => LET items == last'.items
               n == Len(transactions)
               k == FirstFailingItem(accounts, items)
           IN /\ last'.raised <=> k # 0
              /\ k # 0 =>
                   /\ Len(transactions') >= n + k - 1
                   /\ Len(transactions') <= n + k
                   /\ SubSeq(transactions', 1, n) = transactions
                   /\ \A j \in 1..(k - 1) :
                        /\ transactions'[n + j].account_id = items[j].account_id
                        /\ transactions'[n + j].amount = items[j].amount
                        /\ transactions'[n + j].date = items[j].date
                        /\ StoredBalance(accounts', items[j].account_id)
                             = LedgerSum(transactions', items[j].account_id)]_vars

\* the second item of a batch failed and the transaction of the first is
\* stored and counted in its account's balance
C24_Witness ==
    /\ last.op = "repository_import" /\ last.raised
    /\ Len(last.items) = 2
    /\ Exists(accounts, last.items[1].account_id)
    /\ ~Exists(accounts, last.items[2].account_id)
    /\ \E i \in 1..Len(transactions) :
          /\ transactions[i].account_id = last.items[1].account_id
          /\ transactions[i].amount = last.items[1].amount
    /\ StoredBalance(accounts, last.items[1].account_id) = last.items[1].amount

\* C25: a transaction created or updated so that it names an account that
\* is not stored is refused and nothing is stored: every stored
\* transaction's account_id is the id of a stored account.
C25_StoredTransactionsNameStoredAccounts ==
    \A i \in 1..Len(transactions) : Exists(accounts, transactions[i].account_id)

\* the refusal alone: a create or an update that raised left the
\* transactions as they were
RefusedMutationStoresNothing ==
    [][(last'.op \in {"create_transaction", "update_transaction"}
            /\ last'.raised)
          => transactions' = transactions]_vars

StoredRows(txns) == {txns[i] : i \in 1..Len(txns)}

\* C28: a transaction create, update or delete changes at most one
\* transaction, changes the balance of no account but the one the
\* transaction belonged to before or belongs to after the call, and changes
\* nothing else of any account.
C28_MutationFrame ==
    [][last'.op \in {"create_transaction", "update_transaction",
                     "delete_transaction"}
        => LET changed == (StoredRows(transactions) \ StoredRows(transactions'))
                            \cup (StoredRows(transactions') \ StoredRows(transactions))
               touched == {last'.account_id}
                            \cup (IF last'.op = "update_transaction"
                                  THEN {last'.old_account_id} ELSE {})
           IN /\ Cardinality({r.id : r \in changed}) <= 1
              /\ \A r \in changed : r.account_id \in touched
              /\ Len(accounts') = Len(accounts)
              /\ \A i \in 1..Len(accounts) :
                    \/ accounts'[i] = accounts[i]
                    \/ /\ accounts[i].id \in touched
                       /\ accounts'[i] =
                            [accounts[i] EXCEPT
                                !.balance = accounts'[i].balance]]_vars

\* a transaction was created in account 1 while account 2, whose balance
\* is not the sum of its transactions, and another transaction are stored
C28_Witness ==
    /\ last.op = "create_transaction" /\ ~last.raised
    /\ last.account_id = 1
    /\ Exists(accounts, 1) /\ Exists(accounts, 2)
    /\ StoredBalance(accounts, 2) # LedgerSum(transactions, 2)
    /\ StoredBalance(accounts, 1) = LedgerSum(transactions, 1)
    /\ Len(transactions) = 2

\* C22: reconciliation is not serialized per account.  The balance a
\* request commits is the sum it read at its own sum query (nothing when
\* that is the balance it loaded), whatever other requests have committed
\* since; so two requests that each create a transaction on one account can
\* both complete and leave a balance that is not the sum (C22_Witness).
C22_BalanceCommitWritesTheSumRead ==
    [][\A s \in SessionIds :
          (Leaves(s, "commit_balance") /\ sessions'[s].pc = "done")
            => /\ transactions' = transactions
               /\ \A i \in 1..Len(accounts) :
                    accounts'[i] =
                        IF /\ accounts[i].id = sessions[s].account_id
                           /\ sessions[s].sum # sessions[s].loaded
                        THEN [accounts[i] EXCEPT !.balance = sessions[s].sum]
                        ELSE accounts[i]]_vars

\* both requests created a transaction on account 1 and completed, and the
\* balance of account 1 is not the sum of its transactions
C22_Witness ==
    /\ \A s \in 1..2 : sessions[s].op = "create" /\ sessions[s].pc = "done"
    /\ Cardinality({i \in 1..Len(transactions) :
                       transactions[i].account_id = 1}) = 2
    /\ StoredBalance(accounts, 1) # LedgerSum(transactions, 1)

\* C23: the mutation and its reconciliation are two commits.  The commit
\* of a create, update or delete changes the transactions and no balance;
\* the balance changes only in the later commit of the reconciliation, and
\* a crash between the two changes nothing, so it leaves what the first
\* commit stored (C23_Witness: a balance that is not the sum).
C23_MutationAndBalanceCommitSeparately ==
    [][\A s \in SessionIds :
          /\ (Leaves(s, "mutate") /\ sessions'[s].pc = "query_account")
                => /\ accounts' = accounts
                   /\ transactions' =
                        mutated_rows(transactions, sessions[s], sessions'[s].tid)
          /\ (Leaves(s, "commit_balance"))
                => transactions' = transactions
          /\ (sessions'[s].pc = "crashed" /\ sessions[s].pc # "crashed")
                => /\ sessions[s].pc \in Reconciling
                   /\ accounts' = accounts
                   /\ transactions' = transactions]_vars

\* a request that deleted a transaction crashed before its reconciliation
\* and no request is left running: the balance is not the sum
C23_Witness ==
    /\ \E s \in SessionIds :
          sessions[s].op = "delete" /\ sessions[s].pc = "crashed"
    /\ \A s \in SessionIds : sessions[s].pc \in {"done", "crashed"}
    /\ StoredBalance(accounts, 1) # LedgerSum(transactions, 1)

\* the same after a create and after an update
CrashedCreateReached ==
    /\ \E s \in SessionIds :
          sessions[s].op = "create" /\ sessions[s].pc = "crashed"
    /\ \A s \in SessionIds : sessions[s].pc \in {"idle", "crashed"}
    /\ StoredBalance(accounts, 1) # LedgerSum(transactions, 1)

CrashedUpdateReached ==
    /\ \E s \in SessionIds :
          sessions[s].op = "update" /\ sessions[s].pc = "crashed"
    /\ \A s \in SessionIds : sessions[s].pc \in {"done", "crashed"}
    /\ StoredBalance(accounts, 1) # LedgerSum(transactions, 1)

====
